---- MODULE Spec2Model ----
(***************************************************************************)
(* RGP prediction of PPanGGOLiN (ppanggolin/RGP/panRGP.py).                *)
(*                                                                         *)
(* Spec      : compute_org_rgp on one organism: for every contig,          *)
(*             initMatrices, then the extract / rescore loop of mkRegions. *)
(* SpecMulti : get_multigenics over the gene families of a pangenome.      *)
(* SpecBorder: compBorder and checkSim on two pairs of borders.            *)
(* SpecSpot  : makeSpotGraph and makeFlanking on a set of regions.         *)
(* SpecPredict: predictRGP from the parameter check to the status.         *)
(* SpecWorkers: the calls of compute_org_rgp of predictRGP, side by side.  *)
(*                                                                         *)
(* Positions are 0-based as in the Python lists: node i of a matrix is     *)
(* At(matrix, i), and a node's prev is the position of the previous node   *)
(* or None.  A node's gene is the gene at the node's own position.         *)
(***************************************************************************)
EXTENDS Integers, Sequences, FiniteSets, TLC

VARIABLES
    organism,            \* the contigs of the organism, in iteration order
    namedPartition,      \* gene family -> "persistent" | "shell" | "cloud"
    orgDict,             \* gene family -> organism -> number of genes of the family
    persistent_penalty,
    variable_gain,
    min_length,
    min_score,
    dup_margin,          \* a ratio [num, den], den > 0
    multigenics,         \* the set of multigenic persistent families
    todo,                \* get_multigenics: the families the loop has not visited
    ci,                  \* compute_org_rgp: position of the current contig
    matrix,              \* the MatriceNode list of the current contig
    val,                 \* mkRegions: score of the current maximum node
    index,               \* mkRegions: position of the current maximum node
    new_region,          \* mkRegions: the region extracted last
    contigRegions,       \* mkRegions: the regions kept for the current contig
    orgRegions,          \* compute_org_rgp: the regions kept for the organism
    pc,                  \* position in the code
    modifs,              \* history: the increments of the first pass of initMatrices
    nbRewritten,         \* history: nodes rewritten by the wraparound of initMatrices
    raw,                 \* history: the curr_score each node was last scored with
    candidates,          \* history: every region extracted from the current contig
    overlapping_match,
    set_size,
    exact_match,
    pairKnownBorder,     \* checkSim: the two borders of the base node
    pairBorderGenes,     \* checkSim: the two borders of the other node
    compared,            \* the results of compBorder and checkSim on the two pairs
    rgps,                \* makeSpotGraph: region -> the two borders getBorderingGenes returns
    pending,             \* makeSpotGraph: the regions the first loop has not visited
    spotGraph,           \* makeSpotGraph: nodes (in insertion order), their data, edges
    lost,                \* makeSpotGraph: regions dropped for a short border
    spots,               \* makeSpotGraph: the list of [borders, regions] it returns
    flankGraph,          \* makeFlanking: nodes, their data, weighted edges
    organisms,           \* predictRGP: organism -> its contigs, in iteration order
    status,              \* pangenome.status
    parameters,          \* pangenome.parameters
    regions,             \* the regions attached to the pangenome
    pangenomeRGP,        \* predictRGP: the regions predicted so far
    orgsLeft,            \* predictRGP: the organisms the loop has not visited
    called,              \* history: the functions predictRGP has called so far
    workers              \* organism -> the locals of its call of compute_org_rgp

pangenome == <<organism, namedPartition, orgDict, organisms, status, parameters, regions>>
params == <<persistent_penalty, variable_gain, min_length, min_score, dup_margin,
           overlapping_match, set_size, exact_match>>
scan == <<ci, matrix, val, index, new_region, contigRegions, orgRegions>>
history == <<modifs, nbRewritten, raw, candidates>>
borders == <<pairKnownBorder, pairBorderGenes, compared>>
hotspots == <<rgps, pending, spotGraph, lost, spots, flankGraph>>
predict == <<pangenomeRGP, orgsLeft, called, workers>>
vars == <<pangenome, params, multigenics, todo, scan, pc, history, borders, hotspots, predict>>

(***************************************************************************)
(* Bounds and input sets                                                   *)
(***************************************************************************)
MaxGenes == 4
MaxCopies == 2

None == -1

Families == {"fa", "fb", "fc"}
Partitions == {"persistent", "shell", "cloud"}
Organisms == {"o1", "o2"}

\* Sequences over S of length 0..n
RECURSIVE SeqsUpTo(_, _)
SeqsUpTo(S, n) ==
    IF n = 0 THEN {<<>>}
    ELSE LET shorter == SeqsUpTo(S, n - 1)
         IN  shorter \cup {Append(s, x) : s \in {t \in shorter : Len(t) = n - 1}, x \in S}

Contig(genes, circular) == [genes |-> genes, is_circular |-> circular]

\* Gene coordinates: the gene at position i spans GeneStart(i)..GeneStop(i);
\* genes of a contig are ordered by position and do not overlap.
GeneStart(i) == 10 * i + 1
GeneStop(i) == 10 * i + 9

(***************************************************************************)
(* MatriceNode                                                             *)
(***************************************************************************)
At(lst, i) == lst[i + 1]

\* Variant of MatriceNode that stores the score as given.
MatriceNode_unclamped(state, score, prev) ==
    [state |-> state, score |-> score, prev |-> prev]

MatriceNode(state, score, prev) ==
    [state |-> state, score |-> IF score > 0 THEN score ELSE 0, prev |-> prev]

\* Variant of changes that stores the score as given.
changes_unclamped(node, state, score) ==
    [node EXCEPT !.state = IF score >= 0 THEN 1 ELSE 0,
                 !.score = score]

changes(node, state, score) ==
    [node EXCEPT !.state = IF score >= 0 THEN 1 ELSE 0,
                 !.score = IF score >= 0 THEN score ELSE 0]

RECURSIVE pow(_, _)
pow(b, e) == IF e = 0 THEN 1 ELSE b * pow(b, e - 1)

\* Variants of Increment: the run length counted before it is used, and a
\* penalty that grows linearly.
Increment_counted_first(family, partition, penalty, gain, nbPerc, multi) ==
    IF partition[family] = "persistent" /\ family \notin multi
    THEN [modif |-> -pow(penalty, nbPerc + 1), nbPerc |-> nbPerc + 1]
    ELSE [modif |-> gain, nbPerc |-> 0]

Increment_linear(family, partition, penalty, gain, nbPerc, multi) ==
    IF partition[family] = "persistent" /\ family \notin multi
    THEN [modif |-> -(penalty * nbPerc), nbPerc |-> nbPerc + 1]
    ELSE [modif |-> gain, nbPerc |-> 0]

\* The increment of one gene and the new run length of strict persistent genes.
Increment(family, partition, penalty, gain, nbPerc, multi) ==
    IF partition[family] = "persistent" /\ family \notin multi
    THEN [modif |-> -pow(penalty, nbPerc), nbPerc |-> nbPerc + 1]
    ELSE [modif |-> gain, nbPerc |-> 0]

\* Variant of CurrState: state 1 only for a positive score.
CurrState_positive(curr_score) == IF curr_score > 0 THEN 1 ELSE 0

CurrState(curr_score) == IF curr_score >= 0 THEN 1 ELSE 0

(***************************************************************************)
(* initMatrices                                                            *)
(***************************************************************************)
\* The for loop over contig.genes; i is the position of the next gene.
RECURSIVE FirstPass(_, _, _, _, _, _, _, _, _, _)
FirstPass(genes, partition, penalty, gain, multi, i, mat, nbPerc, ms, rs) ==
    IF i = Len(genes) THEN [mat |-> mat, modifs |-> ms, raw |-> rs]
    ELSE LET inc == Increment(At(genes, i), partition, penalty, gain, nbPerc, multi)
             curr_score == IF i > 0 THEN inc.modif + At(mat, i - 1).score ELSE inc.modif
             curr_state == CurrState(curr_score)
             node == MatriceNode(curr_state, curr_score, IF i > 0 THEN i - 1 ELSE None)
         IN  FirstPass(genes, partition, penalty, gain, multi, i + 1,
                       Append(mat, node), inc.nbPerc,
                       Append(ms, inc.modif), Append(rs, curr_score))

\* Variant of IsLastNode: the stop is tested one node too late.
IsLastNode_late(c, last) == c = last + 1

\* The wraparound stops at the node that was inserted last.
IsLastNode(c, last) == c = last

\* The while loop of the circular case; c is the position of the node to rewrite.
\* prev stays the last node throughout: the loop never reassigns it.
RECURSIVE WrapLoop(_, _, _, _, _, _, _, _, _, _)
WrapLoop(genes, partition, penalty, gain, multi, mat, c, nbPerc, curr_state, rs) ==
    LET last == Len(mat) - 1
    IN  \* (mat[c] past the end of the list would raise IndexError and end the loop)
        IF curr_state = 0 \/ c >= Len(mat) \/ IsLastNode(c, last)
        THEN [mat |-> mat, raw |-> rs, nbRewritten |-> c]
        ELSE LET inc == Increment(At(genes, c), partition, penalty, gain, nbPerc, multi)
                 curr_score == inc.modif + At(mat, last).score
                 new_state == CurrState(curr_score)
             IN  WrapLoop(genes, partition, penalty, gain, multi,
                          [mat EXCEPT ![c + 1] = changes(@, new_state, curr_score)],
                          c + 1, inc.nbPerc, new_state,
                          [rs EXCEPT ![c + 1] = curr_score])

initMatrices(contig, partition, penalty, gain, multi) ==
    LET first == FirstPass(contig.genes, partition, penalty, gain, multi,
                           0, <<>>, 0, <<>>, <<>>)
        n == Len(contig.genes)
        curr_state == CurrState(At(first.raw, n - 1))
    IN  IF contig.is_circular /\ curr_state = 1
        THEN LET linked == [first.mat EXCEPT ![1].prev = n - 1]
                 wrapped == WrapLoop(contig.genes, partition, penalty, gain, multi,
                                     linked, 0, 0, curr_state, first.raw)
             IN  [mat |-> wrapped.mat, modifs |-> first.modifs,
                  raw |-> wrapped.raw, nbRewritten |-> wrapped.nbRewritten]
        ELSE [mat |-> first.mat, modifs |-> first.modifs,
              raw |-> first.raw, nbRewritten |-> 0]

(***************************************************************************)
(* extractRGP                                                              *)
(***************************************************************************)
\* A Region: its name (contig, ID), its genes in the order they were
\* appended (positions on the contig), and its score.
Region(contig, ID) == [name |-> <<contig, ID>>, genes |-> <<>>, score |-> 0]

\* Variant of ExtractLoop that takes the starting node only.
ExtractLoop_one(mat, node, genes) ==
    IF At(mat, node).state = 0 THEN [genes |-> genes, mat |-> mat]
    ELSE [genes |-> Append(genes, node),
          mat |-> [mat EXCEPT ![node + 1].state = 0, ![node + 1].score = 0]]

RECURSIVE ExtractLoop(_, _, _)
ExtractLoop(mat, node, genes) ==
    IF At(mat, node).state = 0 THEN [genes |-> genes, mat |-> mat]
    ELSE LET erased == [mat EXCEPT ![node + 1].state = 0, ![node + 1].score = 0]
             nxt == At(mat, node).prev
         IN  IF nxt = None
             THEN [genes |-> Append(genes, node), mat |-> erased]
             ELSE ExtractLoop(erased, nxt, Append(genes, node))

\* The new region and the matrix as the walk leaves it.
extractRGP(contig, mat, node, ID) ==
    LET walk == ExtractLoop(mat, node, <<>>)
    IN  [new_region |-> [Region(contig, ID) EXCEPT !.genes = walk.genes],
         mat |-> walk.mat]

(***************************************************************************)
(* rewriteMatrix                                                           *)
(***************************************************************************)
\* The while loop; idx is the position of nextNode, prev the position of prev.
RECURSIVE RewriteLoop(_, _, _, _, _, _, _, _, _, _)
RewriteLoop(contig, partition, persistent, continuity, multi, mat, idx, prev, nbPerc, rs) ==
    IF At(mat, idx).state = 0 THEN [mat |-> mat, raw |-> rs]
    ELSE LET inc == Increment(At(contig.genes, idx), partition, persistent,
                              continuity, nbPerc, multi)
             curr_score == inc.modif + At(mat, prev).score
             curr_state == CurrState(curr_score)
             mat2 == [mat EXCEPT ![idx + 1] = changes(@, curr_state, curr_score)]
             rs2 == [rs EXCEPT ![idx + 1] = curr_score]
             idx2 == idx + 1
         IN  IF idx2 >= Len(mat)
             THEN IF contig.is_circular
                  THEN RewriteLoop(contig, partition, persistent, continuity, multi,
                                   mat2, 0, idx, inc.nbPerc, rs2)
                  ELSE [mat |-> mat2, raw |-> rs2]
             ELSE RewriteLoop(contig, partition, persistent, continuity, multi,
                              mat2, idx2, idx, inc.nbPerc, rs2)

\* Variant of rewriteMatrix that rescores every node after idx up to the end
\* of the list, whatever its state.
RECURSIVE ReviveLoop(_, _, _, _, _, _, _, _, _)
ReviveLoop(c, partition, persistent, continuity, multi, mat, idx, nbPerc, rs) ==
    IF idx >= Len(mat) THEN [mat |-> mat, raw |-> rs]
    ELSE LET inc == Increment(At(c.genes, idx), partition, persistent,
                              continuity, nbPerc, multi)
             curr_score == inc.modif + At(mat, idx - 1).score
         IN  ReviveLoop(c, partition, persistent, continuity, multi,
                        [mat EXCEPT ![idx + 1] = changes(@, CurrState(curr_score), curr_score)],
                        idx + 1, inc.nbPerc, [rs EXCEPT ![idx + 1] = curr_score])

rewriteMatrix_revive(c, mat, idx, partition, persistent, continuity, multi, rs) ==
    ReviveLoop(c, partition, persistent, continuity, multi, mat, idx + 1, 0, rs)

\* Variant of rewriteMatrix that rescores nothing.
rewriteMatrix_skipped(contig, mat, idx, partition, persistent, continuity, multi, rs) ==
    [mat |-> mat, raw |-> rs]

rewriteMatrix(contig, mat, idx, partition, persistent, continuity, multi, rs) ==
    LET prev == idx
        idx1 == idx + 1
        idx2 == IF idx1 > Len(mat) /\ contig.is_circular THEN 0 ELSE idx1
    IN  IF idx2 < Len(mat)
        THEN RewriteLoop(contig, partition, persistent, continuity, multi,
                         mat, idx2, prev, 0, rs)
        ELSE [mat |-> mat, raw |-> rs]

(***************************************************************************)
(* mkRegions                                                               *)
(***************************************************************************)
\* Variant of MaxLoop that keeps the first of the highest scores.
RECURSIVE MaxLoop_first(_, _, _, _)
MaxLoop_first(lst, i, maxScore, maxIndex) ==
    IF i = Len(lst) THEN [val |-> maxScore, index |-> maxIndex]
    ELSE IF At(lst, i).score > maxScore
         THEN MaxLoop_first(lst, i + 1, At(lst, i).score, i)
         ELSE MaxLoop_first(lst, i + 1, maxScore, maxIndex)

RECURSIVE MaxLoop(_, _, _, _)
MaxLoop(lst, i, maxScore, maxIndex) ==
    IF i = Len(lst) THEN [val |-> maxScore, index |-> maxIndex]
    ELSE IF At(lst, i).score >= maxScore
         THEN MaxLoop(lst, i + 1, At(lst, i).score, i)
         ELSE MaxLoop(lst, i + 1, maxScore, maxIndex)

\* The last node with the highest score.
maxIndexNode(lst) == MaxLoop(lst, 0, At(lst, 0).score, 0)

\* new_region[0].stop - new_region[-1].start
Span(region) ==
    GeneStop(region.genes[1]) - GeneStart(region.genes[Len(region.genes)])

\* Variant of Accepted with an inclusive bound.
Accepted_inclusive(region, minLength) == Span(region) >= minLength

Accepted(region, minLength) == Span(region) > minLength

(***************************************************************************)
(* get_multigenics                                                         *)
(***************************************************************************)
\* fam.getOrgDict(): the organisms that carry the family, with their genes
getOrgDict(dict, fam) == {org \in Organisms : dict[fam][org] > 0}

\* dup: the organisms that carry the family more than once
Duplicated(dict, fam) == {org \in getOrgDict(dict, fam) : dict[fam][org] > 1}

\* (dup / len(fam.organisms)) >= dup_margin, the margin being num / den
AboveMargin_strict(dup, nbOrgs, margin) == dup * margin.den > margin.num * nbOrgs

AboveMargin(dup, nbOrgs, margin) == dup * margin.den >= margin.num * nbOrgs

IsMultigenic(partition, dict, fam, margin) ==
    /\ partition[fam] = "persistent"
    /\ AboveMargin(Cardinality(Duplicated(dict, fam)),
                   Cardinality(getOrgDict(dict, fam)), margin)

(***************************************************************************)
(* Inputs                                                                  *)
(***************************************************************************)
\* Partitions of the scanned contigs: fa and fb are persistent, fc is shell.
ScanPartition == [f \in Families |-> IF f = "fc" THEN "shell" ELSE "persistent"]

AllContigs ==
    {Contig(g, c) : g \in SeqsUpTo(Families, MaxGenes), c \in BOOLEAN}

ShortContigs == {Contig(g, FALSE) : g \in SeqsUpTo({"fa", "fc"}, 1)}

\* [P,P,P,V,V,P,P,P], linear
ScenarioA == Contig(<<"fa", "fa", "fa", "fc", "fc", "fa", "fa", "fa">>, FALSE)

\* five variable genes, circular
ScenarioB == Contig(<<"fc", "fc", "fc", "fc", "fc">>, TRUE)

PenaltyVals == {0, 3}
GainVals == {1, 2}
MinScoreVals == {0, 1, 4}
MinLengthVals == {-50, 0, 18}
MarginVals == {[num |-> 0, den |-> 1], [num |-> 1, den |-> 20],
               [num |-> 1, den |-> 2], [num |-> 1, den |-> 1]}

NoRegion == Region(None, None)

ScanIdle ==
    /\ ci = 0
    /\ matrix = <<>>
    /\ val = 0
    /\ index = 0
    /\ new_region = NoRegion
    /\ contigRegions = {}
    /\ orgRegions = {}
    /\ modifs = <<>>
    /\ nbRewritten = 0
    /\ raw = <<>>
    /\ candidates = <<>>

\* Defaults of the spot parameters (lines 596-598); nothing compared, no spot graph.
HotspotsIdle ==
    /\ overlapping_match = 2
    /\ set_size = 3
    /\ exact_match = 1
    /\ pairKnownBorder = <<>>
    /\ pairBorderGenes = <<>>
    /\ compared = <<>>
    /\ rgps = <<>>
    /\ pending = {}
    /\ spotGraph = <<>>
    /\ lost = 0
    /\ spots = <<>>
    /\ flankGraph = <<>>

\* A pangenome with its status set and nothing predicted yet
PredictIdle ==
    /\ organisms = <<>>
    /\ status = [annotations |-> TRUE, families |-> TRUE, partitions |-> TRUE,
                 predictedRGP |-> "No"]
    /\ parameters = <<>>
    /\ regions = {}
    /\ pangenomeRGP = {}
    /\ orgsLeft = {}
    /\ called = {}
    /\ workers = <<>>

\* compute_org_rgp is entered with an organism, the four scan parameters and
\* the multigenic set (a set of persistent families).
Init ==
    /\ namedPartition = ScanPartition
    /\ orgDict = [f \in Families |-> [o \in Organisms |-> 1]]
    /\ dup_margin = [num |-> 1, den |-> 20]
    /\ multigenics \in {{}, {"fb"}}
    /\ todo = {}
    /\ \/ /\ organism \in {<<c>> : c \in AllContigs}
                         \cup {<<c, d>> : c \in ShortContigs, d \in ShortContigs}
          /\ persistent_penalty \in PenaltyVals
          /\ variable_gain \in GainVals
          /\ min_score \in MinScoreVals
          /\ min_length \in MinLengthVals
       \/ /\ organism = <<ScenarioA>>
          /\ persistent_penalty = 3
          /\ variable_gain \in {1, 5}
          /\ min_score = 4
          /\ min_length = 0
       \/ /\ organism = <<ScenarioB>>
          /\ persistent_penalty = 3
          /\ variable_gain = 1
          /\ min_score \in {0, 1, 5, 6}
          /\ min_length \in MinLengthVals
    /\ ScanIdle
    /\ HotspotsIdle
    /\ PredictIdle
    /\ pc = "org"

(***************************************************************************)
(* compute_org_rgp and the steps of mkRegions                              *)
(***************************************************************************)
contig == At(organism, ci)

\* Variant of HasGenes that lets every contig through.
HasGenes_always(c) == TRUE

\* line 166: len(contig.genes) != 0
HasGenes(c) == Len(c.genes) # 0

\* line 168: the matrix of the next contig, when it has genes
InitMatricesStep ==
    /\ pc = "org"
    /\ ci < Len(organism)
    /\ HasGenes(contig)
    /\ LET r == initMatrices(contig, namedPartition, persistent_penalty,
                             variable_gain, multigenics)
       IN  /\ matrix' = r.mat
           /\ modifs' = r.modifs
           /\ raw' = r.raw
           /\ nbRewritten' = r.nbRewritten
    /\ candidates' = <<>>
    /\ pc' = "scored"
    /\ UNCHANGED <<predict, borders, hotspots, pangenome, params, multigenics, todo, ci, val, index,
                   new_region, contigRegions, orgRegions>>

\* line 166: a contig without genes is passed over
SkipContig ==
    /\ pc = "org"
    /\ ci < Len(organism)
    /\ ~HasGenes(contig)
    /\ ci' = ci + 1
    /\ UNCHANGED <<predict, borders, hotspots, pangenome, params, multigenics, todo, matrix, val, index,
                   new_region, contigRegions, orgRegions, pc, history>>

\* line 171
ReturnOrgRegions ==
    /\ pc = "org"
    /\ ci = Len(organism)
    /\ pc' = "done"
    /\ UNCHANGED <<predict, borders, hotspots, pangenome, params, multigenics, todo, scan, history>>

\* lines 150-152
MkRegionsStart ==
    /\ pc = "scored"
    /\ contigRegions' = {}
    /\ val' = maxIndexNode(matrix).val
    /\ index' = maxIndexNode(matrix).index
    /\ pc' = "loop"
    /\ UNCHANGED <<predict, borders, hotspots, pangenome, params, multigenics, todo, ci, matrix,
                   new_region, orgRegions, history>>

\* lines 153-157: the loop is entered, a region is extracted and kept or not.
\* Reading new_region[0] of a region without genes raises.
Extract ==
    /\ pc = "loop"
    /\ val >= min_score
    /\ LET e == extractRGP(ci, matrix, index, Cardinality(contigRegions))
           region == [e.new_region EXCEPT !.score = val]
       IN  /\ matrix' = e.mat
           /\ new_region' = region
           /\ candidates' = Append(candidates, region)
           /\ IF Len(region.genes) = 0
              THEN /\ pc' = "raised"
                   /\ UNCHANGED contigRegions
              ELSE /\ pc' = "extracted"
                   /\ contigRegions' = IF Accepted(region, min_length)
                                       THEN contigRegions \cup {region}
                                       ELSE contigRegions
    /\ UNCHANGED <<predict, borders, hotspots, pangenome, params, multigenics, todo, ci, val, index,
                   orgRegions, modifs, nbRewritten, raw>>

\* lines 158-160: the nodes after the extracted one are rescored
Rewrite ==
    /\ pc = "extracted"
    /\ LET r == rewriteMatrix(contig, matrix, index, namedPartition,
                              persistent_penalty, variable_gain, multigenics, raw)
       IN  /\ matrix' = r.mat
           /\ raw' = r.raw
           /\ val' = maxIndexNode(r.mat).val
           /\ index' = maxIndexNode(r.mat).index
    /\ pc' = "loop"
    /\ UNCHANGED <<predict, borders, hotspots, pangenome, params, multigenics, todo, ci, new_region,
                   contigRegions, orgRegions, modifs, nbRewritten, candidates>>

\* lines 161 and 169: the loop ends, the contig's regions join the organism's
ReturnRegions ==
    /\ pc = "loop"
    /\ val < min_score
    /\ orgRegions' = orgRegions \cup contigRegions
    /\ ci' = ci + 1
    /\ pc' = "org"
    /\ UNCHANGED <<predict, borders, hotspots, pangenome, params, multigenics, todo, matrix, val, index,
                   new_region, contigRegions, history>>

Next ==
    \/ InitMatricesStep
    \/ SkipContig
    \/ ReturnOrgRegions
    \/ MkRegionsStart
    \/ Extract
    \/ Rewrite
    \/ ReturnRegions

Spec == Init /\ [][Next]_vars

(***************************************************************************)
(* get_multigenics, one family of the loop at a time                       *)
(***************************************************************************)
InitMulti ==
    /\ organism = <<>>
    /\ namedPartition \in {p \in [Families -> Partitions] : p["fc"] = "shell"}
    /\ orgDict \in {d \in [Families -> [Organisms -> 0..MaxCopies]] :
                      /\ \A f \in Families : getOrgDict(d, f) # {}
                      /\ \A o \in Organisms : d["fc"][o] = MaxCopies}
    /\ persistent_penalty = 3
    /\ variable_gain = 1
    /\ min_length = 3000
    /\ min_score = 4
    /\ dup_margin \in MarginVals
    /\ multigenics = {}
    /\ todo = Families
    /\ ScanIdle
    /\ HotspotsIdle
    /\ PredictIdle
    /\ pc = "multi"

\* lines 178-182: the body of the loop for one family
GetMultigenicsFam(fam) ==
    /\ pc = "multi"
    /\ fam \in todo
    /\ todo' = todo \ {fam}
    /\ multigenics' = IF IsMultigenic(namedPartition, orgDict, fam, dup_margin)
                      THEN multigenics \cup {fam}
                      ELSE multigenics
    /\ UNCHANGED <<predict, borders, hotspots, pangenome, params, scan, pc, history>>

\* line 184
ReturnMultigenics ==
    /\ pc = "multi"
    /\ todo = {}
    /\ pc' = "multi_done"
    /\ UNCHANGED <<predict, borders, hotspots, pangenome, params, multigenics, todo, scan, history>>

NextMulti ==
    \/ \E fam \in Families : GetMultigenicsFam(fam)
    \/ ReturnMultigenics

SpecMulti == InitMulti /\ [][NextMulti]_vars

(***************************************************************************)
(* Properties                                                              *)
(***************************************************************************)
Positions(mat) == 0..(Len(mat) - 1)
Scores(mat) == [i \in 1..Len(mat) |-> mat[i].score]
States(mat) == [i \in 1..Len(mat) |-> mat[i].state]
NumState1(mat) == Cardinality({i \in Positions(mat) : At(mat, i).state = 1})
GenesOf(region) == {region.genes[k] : k \in 1..Len(region.genes)}
Erased == UNION {GenesOf(candidates[k]) : k \in 1..Len(candidates)}
HasMatrix == pc \in {"scored", "loop", "extracted", "raised"}

\* Scenario A: [P,P,P,V,V,P,P,P], penalty 3, gain 1 or 5, min_score 4,
\* min_length 0.  Scenario B: five variable genes, circular, gain 1.
InScenarioA ==
    /\ organism = <<ScenarioA>>
    /\ persistent_penalty = 3
    /\ variable_gain \in {1, 5}
    /\ min_score = 4
    /\ min_length = 0

InScenarioB == organism = <<ScenarioB>> /\ variable_gain = 1

\* C1 (as claimed): every iteration of the loop of mkRegions extracts a
\* region whose walk sets at least one node to state 0, so the number of
\* state=1 nodes strictly decreases with every iteration, whatever
\* min_score is (this is what makes the loop end).
C1_EveryIterationErasesANode ==
    [][Extract => NumState1(matrix') < NumState1(matrix)]_vars

\* C2 (as claimed): the scores of [P,P,P,V,V,P,P,P] with penalty 3 are
\* [0,0,0,1,2,0,0,0] for gain 1 and [0,0,0,5,10,0,0,0] for gain 5.
C2_ScenarioAScoresAsClaimed ==
    (InScenarioA /\ pc = "scored") =>
        Scores(matrix) = IF variable_gain = 1
                         THEN <<0, 0, 0, 1, 2, 0, 0, 0>>
                         ELSE <<0, 0, 0, 5, 10, 0, 0, 0>>

\* C2 (amended): the scores of [P,P,P,V,V,P,P,P] with penalty 3 are
\* [0,0,0,1,2,1,0,0] for gain 1 and [0,0,0,5,10,9,6,0] for gain 5: the
\* persistent genes after the variable run lower the score by 1, then 3,
\* then 9, and a node keeps a positive score until the sum goes negative.
C2_ScenarioAScores ==
    (InScenarioA /\ pc = "scored") =>
        Scores(matrix) = IF variable_gain = 1
                         THEN <<0, 0, 0, 1, 2, 1, 0, 0>>
                         ELSE <<0, 0, 0, 5, 10, 9, 6, 0>>

C2_Witness ==
    InScenarioA /\ pc = "scored" /\ variable_gain = 5

\* C3: for [P,P,P,V,V,P,P,P] with penalty 3, min_score 4 and min_length 0,
\* gain 1 gives no region, and gain 5 gives exactly one region, of the two
\* V genes (positions 3 and 4), with score 10; no other region is extracted.
C3_ScenarioARegions ==
    (InScenarioA /\ pc = "done") =>
        IF variable_gain = 1
        THEN orgRegions = {} /\ candidates = <<>>
        ELSE /\ Cardinality(orgRegions) = 1
             /\ \A r \in orgRegions : GenesOf(r) = {3, 4} /\ Len(r.genes) = 2 /\ r.score = 10
             /\ Len(candidates) = 1

C3_Witness ==
    /\ InScenarioA
    /\ pc = "done"
    /\ variable_gain = 5
    /\ orgRegions # {}

\* The matrix as initMatrices left it for the current contig.
Scored == initMatrices(contig, namedPartition, persistent_penalty,
                       variable_gain, multigenics)
AllInside == \A i \in Positions(Scored.mat) : At(Scored.mat, i).state = 1

C5_WrapBounded ==
    HasMatrix =>
        LET n == Len(matrix)
        IN  /\ nbRewritten <= n - 1
            /\ nbRewritten >= 0
            /\ ~contig.is_circular => nbRewritten = 0
            /\ pc = "scored" =>
                 /\ \A c \in 0..(nbRewritten - 2) : At(matrix, c).state = 1
                 /\ (nbRewritten > 0 /\ nbRewritten < n - 1) =>
                        At(matrix, nbRewritten - 1).state = 0
                 /\ (nbRewritten = 0 /\ n > 1 /\ contig.is_circular) =>
                        At(matrix, n - 1).state = 0

C5_Witness ==
    /\ pc = "scored"
    /\ contig.is_circular
    /\ Len(matrix) = MaxGenes
    /\ \A i \in Positions(matrix) : At(contig.genes, i) = "fc"
    /\ nbRewritten = Len(matrix) - 1
    /\ NumState1(matrix) = Len(matrix)

\* C6: the score of every node is >= 0 in every state of the node chain:
\* after the first pass, after the wraparound, after every extraction and
\* after every rescore.
C6_ScoresNonNegative ==
    \A i \in Positions(matrix) : At(matrix, i).score >= 0

\* a rescore computed a negative score for a node that the first scan had
\* left with a non-negative one
C6_Witness ==
    /\ pc = "loop"
    /\ candidates # <<>>
    /\ \E i \in Positions(matrix) :
          /\ At(raw, i) < 0
          /\ At(Scored.raw, i) >= 0
          /\ At(matrix, i).score = 0

\* C7 (as claimed): a node has state 1 iff its score is strictly positive.
C7_StateIffPositiveScore ==
    HasMatrix =>
        \A i \in Positions(matrix) :
            At(matrix, i).state = 1 <=> At(matrix, i).score > 0

\* C7 (amended): a node that scoring wrote last (first pass, wraparound or
\* rescore) has state 1 iff the score it was given, before clamping, is
\* >= 0, and its score is that value clamped at 0: a node whose running
\* score is exactly 0 has state 1.  A node taken by an extraction has
\* state 0 and score 0.
C7_StateIffNonNegativeRunningScore ==
    HasMatrix =>
        \A i \in Positions(matrix) :
            IF i \in Erased
            THEN At(matrix, i).state = 0 /\ At(matrix, i).score = 0
            ELSE /\ At(matrix, i).state = 1 <=> At(raw, i) >= 0
                 /\ At(matrix, i).score = IF At(raw, i) >= 0 THEN At(raw, i) ELSE 0

C7_Witness ==
    /\ pc = "loop"
    /\ \E i \in Positions(matrix) \ Erased :
          At(matrix, i).state = 1 /\ At(matrix, i).score = 0 /\ At(raw, i) = 0

AllStrict ==
    \A i \in Positions(contig.genes) :
        /\ namedPartition[At(contig.genes, i)] = "persistent"
        /\ At(contig.genes, i) \notin multigenics

\* C8: on a linear contig of N strict persistent genes with penalty 3 the
\* increment at position k is -(3^k) for k = 0..N-1; the running score of
\* every node is negative, so every node has state 0 and score 0.
C8_PenaltyGrowth ==
    (pc = "scored" /\ ~contig.is_circular /\ persistent_penalty = 3 /\ AllStrict) =>
        \A k \in Positions(matrix) :
            /\ At(modifs, k) = -(3 ^ k)
            /\ At(raw, k) = -(3 ^ k)
            /\ At(matrix, k).state = 0
            /\ At(matrix, k).score = 0

C8_Witness ==
    /\ pc = "scored"
    /\ ~contig.is_circular
    /\ persistent_penalty = 3
    /\ AllStrict
    /\ Len(matrix) = MaxGenes

\* C9: no region whose span (stop of its first appended gene minus start of
\* its last appended gene) is <= min_length is among the regions kept, for
\* the contig or for the organism; the nodes of every extracted region,
\* kept or not, have state 0 and score 0 from then on, and no gene is taken
\* by two extractions.
C9_SpanFilter ==
    /\ \A r \in contigRegions \cup orgRegions :
          GeneStop(r.genes[1]) - GeneStart(r.genes[Len(r.genes)]) > min_length
    /\ (pc = "extracted"
        /\ GeneStop(new_region.genes[1])
             - GeneStart(new_region.genes[Len(new_region.genes)]) <= min_length) =>
          new_region \notin contigRegions
    /\ HasMatrix =>
          \A i \in Erased : At(matrix, i).state = 0 /\ At(matrix, i).score = 0
    /\ \A j, k \in 1..Len(candidates) :
          j # k => GenesOf(candidates[j]) \cap GenesOf(candidates[k]) = {}

\* a region was rejected for its span and a later extraction took other genes
C9_Witness ==
    /\ pc = "extracted"
    /\ Len(candidates) >= 2
    /\ Span(candidates[1]) <= min_length
    /\ candidates[1] \notin contigRegions
    /\ new_region.genes # <<>>
    /\ new_region = candidates[Len(candidates)]

MaxBorder == 2

FamilyIDs == {1, 2}

\* The Python slice lst[lo:hi] for 0 <= lo and 0 <= hi: hi is clamped to the length
PySlice(lst, lo, hi) ==
    SubSeq(lst, lo + 1, IF hi < Len(lst) THEN hi ELSE Len(lst))

\* The Python slice lst[lo:]
PyFrom(lst, lo) == SubSeq(lst, lo + 1, Len(lst))

\* Variant of ExactMatch that compares the first family only.
ExactMatch_first_only(border1, border2, exact_match_) ==
    PySlice(border1, 0, 1) = PySlice(border2, 0, 1)

\* line 206
ExactMatch(border1, border2, exact_match_) ==
    PySlice(border1, 0, exact_match_) = PySlice(border2, 0, exact_match_)

\* lines 209-211: the start of border1 is the end of border2, shifted by ikb
OverlapKnown(border1, border2, overlapping_match_, set_size_) ==
    \E ikb \in 1..(set_size_ - overlapping_match_) :
        PySlice(border1, 0, Len(PyFrom(border2, ikb))) = PyFrom(border2, ikb)

\* lines 212-214: the end of border1 is the start of border2, shifted by ib
OverlapBorder(border1, border2, overlapping_match_, set_size_) ==
    \E ib \in 1..(set_size_ - overlapping_match_) :
        PyFrom(border1, ib) = PySlice(border2, 0, Len(PyFrom(border1, ib)))

compBorder_known_only(border1, border2, overlapping_match_, exact_match_, set_size_) ==
    IF ExactMatch(border1, border2, exact_match_) THEN TRUE
    ELSE IF Len(border1) = set_size_ /\ Len(border2) = set_size_
         THEN OverlapKnown(border1, border2, overlapping_match_, set_size_)
         ELSE FALSE

compBorder_exact_only(border1, border2, overlapping_match_, exact_match_, set_size_) ==
    ExactMatch(border1, border2, exact_match_)

\* lines 205-215
compBorder(border1, border2, overlapping_match_, exact_match_, set_size_) ==
    IF ExactMatch(border1, border2, exact_match_) THEN TRUE
    ELSE IF Len(border1) = set_size_ /\ Len(border2) = set_size_
         THEN \/ OverlapKnown(border1, border2, overlapping_match_, set_size_)
              \/ OverlapBorder(border1, border2, overlapping_match_, set_size_)
         ELSE FALSE

\* lines 218-225: kbpair after the two loops
kbpair(pairKB, pairBG, om, em, ss) ==
    [countkb \in 1..2 |-> \E countb \in 1..2 :
        compBorder(pairBG[countb], pairKB[countkb], om, em, ss)]

\* lines 219-225: bpair after the two loops
bpair(pairKB, pairBG, om, em, ss) ==
    [countb \in 1..2 |-> \E countkb \in 1..2 :
        compBorder(pairBG[countb], pairKB[countkb], om, em, ss)]

checkSim_known_only(pairKB, pairBG, om, em, ss) ==
    kbpair(pairKB, pairBG, om, em, ss)[1] /\ kbpair(pairKB, pairBG, om, em, ss)[2]

\* lines 217-229
checkSim(pairKB, pairBG, om, em, ss) ==
    /\ kbpair(pairKB, pairBG, om, em, ss)[1]
    /\ kbpair(pairKB, pairBG, om, em, ss)[2]
    /\ bpair(pairKB, pairBG, om, em, ss)[1]
    /\ bpair(pairKB, pairBG, om, em, ss)[2]

\* The lists over FamilyIDs of exactly n families
BordersOfLen(n) == {b \in SeqsUpTo(FamilyIDs, n) : Len(b) = n}

\* Values the scan and the spot graph keep while borders are compared
BorderIdle ==
    /\ organism = <<>>
    /\ namedPartition = ScanPartition
    /\ orgDict = [f \in Families |-> [o \in Organisms |-> 1]]
    /\ persistent_penalty = 3
    /\ variable_gain = 1
    /\ min_length = 3000
    /\ min_score = 4
    /\ dup_margin = [num |-> 1, den |-> 20]
    /\ multigenics = {}
    /\ todo = {}
    /\ ScanIdle
    /\ PredictIdle

SpotIdle ==
    /\ rgps = <<>>
    /\ pending = {}
    /\ spotGraph = <<>>
    /\ lost = 0
    /\ spots = <<>>
    /\ flankGraph = <<>>

\* The parameters checkParameterLogic lets through (lines 322-326) and two
\* pairs of borders: borders of set_size families as makeSpotGraph keeps
\* them, or borders of any length, or the default parameters of lines 596-598.
InitBorder ==
    /\ BorderIdle
    /\ SpotIdle
    /\ \/ /\ set_size \in 1..MaxBorder
          /\ overlapping_match \in 0..(set_size - 1)
          /\ exact_match \in 0..set_size
          /\ \/ /\ pairKnownBorder \in BordersOfLen(set_size) \X BordersOfLen(set_size)
                /\ pairBorderGenes \in BordersOfLen(set_size) \X BordersOfLen(set_size)
             \/ /\ pairKnownBorder \in {<<b, b>> : b \in SeqsUpTo(FamilyIDs, MaxBorder)}
                /\ pairBorderGenes \in {<<b, b>> : b \in SeqsUpTo(FamilyIDs, MaxBorder)}
       \/ /\ set_size = 3
          /\ overlapping_match = 2
          /\ exact_match = 1
          /\ pairKnownBorder \in BordersOfLen(3) \X BordersOfLen(3)
          /\ pairBorderGenes \in BordersOfLen(3) \X BordersOfLen(3)
    /\ compared = <<>>
    /\ pc = "borders"

\* compBorder on every border of one pair against every border of the other,
\* with the arguments in both orders
CompBorderStep ==
    /\ pc = "borders"
    /\ compared' =
         [kb_b |-> [i \in 1..2, j \in 1..2 |->
                      compBorder(pairKnownBorder[i], pairBorderGenes[j],
                                 overlapping_match, exact_match, set_size)],
          b_kb |-> [i \in 1..2, j \in 1..2 |->
                      compBorder(pairBorderGenes[j], pairKnownBorder[i],
                                 overlapping_match, exact_match, set_size)]]
    /\ pc' = "compared"
    /\ UNCHANGED <<pangenome, params, multigenics, todo, scan, history,
                   pairKnownBorder, pairBorderGenes, hotspots, predict>>

\* checkSim on the two pairs, with the arguments in both orders
CheckSimStep ==
    /\ pc = "compared"
    /\ compared' = [kb_b |-> compared.kb_b,
                    b_kb |-> compared.b_kb,
                    sim_kb_b |-> checkSim(pairKnownBorder, pairBorderGenes,
                                          overlapping_match, exact_match, set_size),
                    sim_b_kb |-> checkSim(pairBorderGenes, pairKnownBorder,
                                          overlapping_match, exact_match, set_size)]
    /\ pc' = "similar"
    /\ UNCHANGED <<pangenome, params, multigenics, todo, scan, history,
                   pairKnownBorder, pairBorderGenes, hotspots, predict>>

NextBorder ==
    \/ CompBorderStep
    \/ CheckSimStep

SpecBorder == InitBorder /\ [][NextBorder]_vars

\* C13: compBorder gives the same answer with its two borders exchanged, for
\* borders of any length and every (overlapping_match, exact_match, set_size)
\* that checkParameterLogic accepts; and checkSim gives the same answer with
\* its two pairs exchanged.
C13_Symmetric ==
    /\ pc \in {"compared", "similar"} =>
         \A i \in 1..2, j \in 1..2 : compared.kb_b[i, j] = compared.b_kb[i, j]
    /\ pc = "similar" => compared.sim_kb_b = compared.sim_b_kb

\* C13 witness: two borders of set_size families that match only through a
\* shifted overlap, found in both argument orders, in two similar pairs.
C13_Witness ==
    /\ pc = "similar"
    /\ overlapping_match >= 1
    /\ compared.sim_kb_b
    /\ compared.sim_b_kb
    /\ \E i \in 1..2, j \in 1..2 :
         /\ compared.kb_b[i, j]
         /\ compared.b_kb[i, j]
         /\ ~ExactMatch(pairKnownBorder[i], pairBorderGenes[j], exact_match)
         /\ pairKnownBorder[i] # pairBorderGenes[j]
(***************************************************************************)
(* makeSpotGraph and makeFlanking                                          *)
(*                                                                         *)
(* A region is written as its name; rgps gives, for every region, the two  *)
(* borders getBorderingGenes returns for it (lists of family IDs) and the  *)
(* families of its genes.  The first loop of makeSpotGraph visits the      *)
(* regions in any order.                                                   *)
(***************************************************************************)
MaxRgps == 2

\* Region.getBorderingGenes(set_size, multigenics): [border0, border1]
getBorderingGenes(rgp) == rgps[rgp].border

\* Region.__eq__: identical ordered gene content
RegionEq(rgp1, rgp2) == rgps[rgp1].families = rgps[rgp2].families

\* nx.Graph(): node names in insertion order, node attributes, edges
EmptyGraph == [nodes |-> <<>>, data |-> <<>>, edges |-> {}]

NodeSet(g) == {g.nodes[i] : i \in 1..Len(g.nodes)}

\* line 233: sorted([ids of border0, ids of border1], key = first ID); the
\* sort is stable, so two lists with the same first ID keep their order.
\* The string of the sorted list is written as the sorted list itself.
blocks(border) ==
    IF At(At(border, 0), 0) <= At(At(border, 1), 0)
    THEN <<At(border, 0), At(border, 1)>>
    ELSE <<At(border, 1), At(border, 0)>>

addNewNode_first_only(g, rgp, border) ==
    IF blocks(border) \in NodeSet(g)
    THEN g
    ELSE [nodes |-> Append(g.nodes, blocks(border)),
          data  |-> g.data @@ (blocks(border) :>
                       [nb_rgp  |-> 1,
                        border1 |-> At(border, 1),
                        border0 |-> At(border, 0),
                        rgp     |-> {rgp}]),
          edges |-> g.edges]

\* lines 232-242
addNewNode(g, rgp, border) ==
    IF blocks(border) \in NodeSet(g)
    THEN [g EXCEPT !.data[blocks(border)].nb_rgp = @ + 1,
                   !.data[blocks(border)].rgp = @ \cup {rgp}]
    ELSE [nodes |-> Append(g.nodes, blocks(border)),
          data  |-> g.data @@ (blocks(border) :>
                       [nb_rgp  |-> 1,
                        border1 |-> At(border, 1),
                        border0 |-> At(border, 0),
                        rgp     |-> {rgp}]),
          edges |-> g.edges]

\* line 248
TooShort(border, set_size_) ==
    Len(At(border, 0)) < set_size_ \/ Len(At(border, 1)) < set_size_

\* lines 257-259: checkSim on the borders of two nodes
NodesSimilar(g, nodei, nodej, om, em, ss) ==
    checkSim(<<g.data[nodei].border0, g.data[nodei].border1>>,
             <<g.data[nodej].border0, g.data[nodej].border1>>, om, em, ss)

\* lines 253-260: every pair of nodes, the earlier node as the base
SimilarityEdges(g, om, em, ss) ==
    {{g.nodes[i], g.nodes[j]} : <<i, j>> \in
        {<<i, j>> \in (1..Len(g.nodes)) \X (1..Len(g.nodes)) :
            i < j /\ NodesSimilar(g, g.nodes[i], g.nodes[j], om, em, ss)}}

Neighbours(g, S) == S \cup {m \in NodeSet(g) : \E n \in S : {n, m} \in g.edges}

Component_alone(g, S) == S

\* nx connected_components: the nodes reached from a node along edges
RECURSIVE Component(_, _)
Component(g, S) ==
    IF Neighbours(g, S) = S THEN S ELSE Component(g, Neighbours(g, S))

\* lines 264-267: [borders, rgps] of one component
SpotOf(g, comp) ==
    [borders |-> {<<g.data[n].border1, g.data[n].border0>> : n \in comp},
     rgps    |-> UNION {g.data[n].rgp : n \in comp}]

\* lines 262-267: one spot per component, in the order of the first node of
\* each component
RECURSIVE SpotsLoop(_, _, _, _)
SpotsLoop(g, i, seen, acc) ==
    IF i > Len(g.nodes) THEN acc
    ELSE IF g.nodes[i] \in seen THEN SpotsLoop(g, i + 1, seen, acc)
    ELSE SpotsLoop(g, i + 1, seen \cup Component(g, {g.nodes[i]}),
                   Append(acc, SpotOf(g, Component(g, {g.nodes[i]}))))

\* lines 193-203: the regions kept by getUniqRGP
RECURSIVE getUniqRGP(_, _)
getUniqRGP(rgpList, uniqRGP) ==
    IF rgpList = {} THEN uniqRGP
    ELSE LET rgp == CHOOSE r \in rgpList : TRUE
         IN  getUniqRGP(rgpList \ {rgp},
                        IF \E seenRgp \in uniqRGP : RegionEq(rgp, seenRgp)
                        THEN uniqRGP
                        ELSE uniqRGP \cup {rgp})

FamiliesOf(border) == {border[k] : k \in 1..Len(border)}

\* lines 285-288: the set of the family sets of the borders of a spot
bords(spot) ==
    {FamiliesOf(border[1]) : border \in spot.borders}
        \cup {FamiliesOf(border[2]) : border \in spot.borders}

inter_families(spoti, spotj) ==
    Cardinality(UNION bords(spoti) \cap UNION bords(spotj))

\* line 294
inter(spoti, spotj) == Cardinality(bords(spoti) \cap bords(spotj))

\* lines 279-296
makeFlanking(spots_) ==
    [nodes |-> [c \in 1..Len(spots_) |-> c - 1],
     data  |-> [c \in 0..(Len(spots_) - 1) |->
                  [nb_rgp |-> Cardinality(At(spots_, c).rgps),
                   nb_organisations |->
                       Cardinality(getUniqRGP(At(spots_, c).rgps, {}))]],
     edges |-> {[nodes |-> {i, j}, nb_bord |-> inter(At(spots_, i), At(spots_, j))] :
                  <<i, j>> \in {<<i, j>> \in (0..(Len(spots_) - 1)) \X (0..(Len(spots_) - 1)) :
                                 i < j /\ inter(At(spots_, i), At(spots_, j)) # 0}}]

\* What getBorderingGenes can return with set_size = 2: two borders of two
\* families, or a shorter border on a side where the contig ends
BorderPool ==
    (BordersOfLen(2) \X BordersOfLen(2))
        \cup {<<<<1>>, <<1, 2>>>>, <<<<1, 2>>, <<1>>>>, <<<<1>>, <<>>>>}

\* With set_size = 3: the borders shared by two regions, and any borders
\* of three families for a third region
SharedBorders3 ==
    {<<x0, x0>> : x0 \in BordersOfLen(3)}
        \cup {<<x0, <<2, 1, 1>>>> : x0 \in BordersOfLen(3)}

\* The gene content of region r
RgpContent(r) == <<8 + (r % 2)>>

\* Borders for three regions whose nodes can form a chain of two edges,
\* and a region with a short border
ChainPool ==
    {<<<<1, 1>>, <<1, 1>>>>, <<<<1, 2>>, <<1, 2>>>>,
     <<<<2, 2>>, <<2, 2>>>>, <<<<1, 1>>, <<2, 2>>>>,
     <<<<1>>, <<1, 2>>>>}

RgpSets(n, pool) ==
    {[r \in 1..n |-> [border |-> bp[r], families |-> RgpContent(r)]] :
        bp \in [1..n -> pool]}

InitSpot ==
    /\ BorderIdle
    /\ pairKnownBorder = <<>>
    /\ pairBorderGenes = <<>>
    /\ compared = <<>>
    /\ \/ /\ set_size = 2
          /\ \E om_em \in {<<1, 1>>, <<1, 2>>, <<0, 2>>} :
                /\ overlapping_match = om_em[1]
                /\ exact_match = om_em[2]
          /\ rgps \in UNION {RgpSets(n, BorderPool) : n \in 1..MaxRgps}
       \/ /\ set_size = 2
          /\ overlapping_match = 1
          /\ exact_match \in {1, 2}
          /\ rgps \in RgpSets(3, ChainPool)
       \/ /\ set_size = 3
          /\ overlapping_match \in 0..2
          /\ exact_match = 1
          /\ rgps \in {[r \in 1..3 |->
                          [border |-> IF r = 3 THEN y ELSE x,
                           families |-> RgpContent(r)]] :
                       x \in SharedBorders3,
                       y \in BordersOfLen(3) \X BordersOfLen(3)}
    /\ pending = DOMAIN rgps
    /\ spotGraph = EmptyGraph
    /\ lost = 0
    /\ spots = <<>>
    /\ flankGraph = <<>>
    /\ pc = "rgps"

\* lines 246-251: one iteration of the loop over the regions
AddRgp(rgp) ==
    /\ pc = "rgps"
    /\ rgp \in pending
    /\ pending' = pending \ {rgp}
    /\ IF TooShort(getBorderingGenes(rgp), set_size)
       THEN /\ lost' = lost + 1
            /\ UNCHANGED spotGraph
       ELSE /\ spotGraph' = addNewNode(spotGraph, rgp, getBorderingGenes(rgp))
            /\ UNCHANGED lost
    /\ UNCHANGED <<pangenome, params, multigenics, todo, scan, pc, history,
                   predict, borders, rgps, spots, flankGraph>>

\* lines 253-260: the edges between similar nodes
LinkNodes ==
    /\ pc = "rgps"
    /\ pending = {}
    /\ spotGraph' = [spotGraph EXCEPT !.edges =
                       SimilarityEdges(spotGraph, overlapping_match, exact_match, set_size)]
    /\ pc' = "linked"
    /\ UNCHANGED <<pangenome, params, multigenics, todo, scan, history,
                   predict, borders, rgps, pending, lost, spots, flankGraph>>

\* lines 262-276: the spots, one per connected component
ReturnSpots ==
    /\ pc = "linked"
    /\ spots' = SpotsLoop(spotGraph, 1, {}, <<>>)
    /\ pc' = "spots"
    /\ UNCHANGED <<pangenome, params, multigenics, todo, scan, history,
                   predict, borders, rgps, pending, spotGraph, lost, flankGraph>>

\* lines 278-300, called at line 311
MakeFlanking ==
    /\ pc = "spots"
    /\ flankGraph' = makeFlanking(spots)
    /\ pc' = "flanking"
    /\ UNCHANGED <<pangenome, params, multigenics, todo, scan, history,
                   predict, borders, rgps, pending, spotGraph, lost, spots>>

NextSpot ==
    \/ \E rgp \in DOMAIN rgps : AddRgp(rgp)
    \/ LinkNodes
    \/ ReturnSpots
    \/ MakeFlanking

SpecSpot == InitSpot /\ [][NextSpot]_vars
(***************************************************************************)
(* Properties of the spot graph                                            *)
(***************************************************************************)
GraphLinked == pc \in {"linked", "spots", "flanking"}
SpotsMade == pc \in {"spots", "flanking"}
Visited == DOMAIN rgps \ pending
Retained(r) == r \in Visited /\ ~TooShort(rgps[r].border, set_size)
NodeBorders(n) == {spotGraph.data[n].border0, spotGraph.data[n].border1}
NodesOfRgp(r) == {n \in NodeSet(spotGraph) : r \in spotGraph.data[n].rgp}
SpotsOfRgp(r) == {i \in 1..Len(spots) : r \in spots[i].rgps}
SameSpot(r1, r2) == \E i \in 1..Len(spots) : {r1, r2} \subseteq spots[i].rgps

\* Every border of the base node matches, by compBorder, a border of the other
BaseCovered(base, other) ==
    \A kb \in NodeBorders(base) : \E b \in NodeBorders(other) :
        compBorder(kb, b, overlapping_match, exact_match, set_size)

\* C14 as claimed: two nodes are linked iff each of the two borders of the
\* base node (the earlier node of the pair) matches at least one of the two
\* borders of the other node.
C14_LinkedIffBaseCovered ==
    GraphLinked =>
        \A i \in 1..Len(spotGraph.nodes), j \in 1..Len(spotGraph.nodes) :
            i < j => ({spotGraph.nodes[i], spotGraph.nodes[j]} \in spotGraph.edges
                        <=> BaseCovered(spotGraph.nodes[i], spotGraph.nodes[j]))

\* C14 amended: two nodes are linked iff each border of the base node matches
\* at least one border of the other node and each border of the other node
\* matches at least one border of the base node.
C14_LinkedIffBothCovered ==
    GraphLinked =>
        \A i \in 1..Len(spotGraph.nodes), j \in 1..Len(spotGraph.nodes) :
            i < j => ({spotGraph.nodes[i], spotGraph.nodes[j]} \in spotGraph.edges
                        <=> /\ BaseCovered(spotGraph.nodes[i], spotGraph.nodes[j])
                            /\ BaseCovered(spotGraph.nodes[j], spotGraph.nodes[i]))

\* C14 witness: a linked pair of nodes, and a pair left unlinked although
\* both borders of its base node match a border of the other node.
C14_Witness ==
    /\ GraphLinked
    /\ spotGraph.edges # {}
    /\ \E i \in 1..Len(spotGraph.nodes), j \in 1..Len(spotGraph.nodes) :
         /\ i < j
         /\ BaseCovered(spotGraph.nodes[i], spotGraph.nodes[j])
         /\ ~BaseCovered(spotGraph.nodes[j], spotGraph.nodes[i])
         /\ {spotGraph.nodes[i], spotGraph.nodes[j]} \notin spotGraph.edges

\* The two borders of r2 are the two borders of r1, in the same or the
\* opposite order
SameBorderPair(r1, r2) ==
    \/ rgps[r1].border = rgps[r2].border
    \/ rgps[r1].border = <<rgps[r2].border[2], rgps[r2].border[1]>>

\* C15: two retained regions whose two border lists are the same pair in
\* either order are on the same node, which holds both regions and counts
\* them.
C15_SameNodeEitherOrder ==
    GraphLinked =>
        \A r1 \in DOMAIN rgps, r2 \in DOMAIN rgps :
            (r1 # r2 /\ Retained(r1) /\ Retained(r2) /\ SameBorderPair(r1, r2)) =>
                \E n \in NodeSet(spotGraph) :
                    /\ {r1, r2} \subseteq spotGraph.data[n].rgp
                    /\ spotGraph.data[n].nb_rgp >= 2

\* Border b differs from border c at each of the three positions
DiffersAt3(b, c) == \A k \in 1..3 : b[k] # c[k]

\* Regions 1 and 2 have the same borders of three families, exact_match = 1
InScenario16 ==
    /\ set_size = 3
    /\ exact_match = 1
    /\ DOMAIN rgps = 1..3
    /\ rgps[1].border = rgps[2].border

\* Each border of region 3 differs at all three positions from each border
\* of regions 1 and 2
ThirdDiffers ==
    \A i \in 1..2, j \in 1..2 : DiffersAt3(rgps[3].border[i], rgps[1].border[j])

\* Border b and border c are aligned with a shift the overlap loops allow
ShiftedOverlap(b, c) ==
    \/ OverlapKnown(b, c, overlapping_match, set_size)
    \/ OverlapBorder(b, c, overlapping_match, set_size)

\* C16 as claimed: with set_size = 3 and exact_match = 1, regions 1 and 2 of
\* identical borders are in the same spot and region 3, whose borders differ
\* from theirs at all three positions, is in another spot.
C16_ThirdAlwaysApart ==
    (SpotsMade /\ InScenario16) =>
        /\ SameSpot(1, 2)
        /\ ThirdDiffers => ~SameSpot(1, 3)

\* C16 amended: regions 1 and 2 are in the same spot; region 3, whose
\* borders differ from theirs at all three positions, is in another spot
\* unless every border of either side is aligned, with a shift of 1 to
\* set_size - overlapping_match, with a border of the other side.
C16_ThirdApartUnlessShifted ==
    (SpotsMade /\ InScenario16) =>
        /\ SameSpot(1, 2)
        /\ ThirdDiffers =>
             (SameSpot(1, 3) <=>
                /\ \A i \in 1..2 : \E j \in 1..2 :
                       ShiftedOverlap(rgps[3].border[i], rgps[1].border[j])
                /\ \A j \in 1..2 : \E i \in 1..2 :
                       ShiftedOverlap(rgps[3].border[i], rgps[1].border[j]))

\* C16 witness: with the default overlapping_match = 2, a third region that
\* differs everywhere and is aligned nowhere, in a spot of its own.
C16_Witness ==
    /\ SpotsMade
    /\ InScenario16
    /\ overlapping_match = 2
    /\ ThirdDiffers
    /\ SameSpot(1, 2)
    /\ ~SameSpot(1, 3)
    /\ SpotsOfRgp(3) # {}

RECURSIVE SumNbRgp(_, _)
SumNbRgp(g, i) ==
    IF i > Len(g.nodes) THEN 0
    ELSE g.data[g.nodes[i]].nb_rgp + SumNbRgp(g, i + 1)

\* C17: every region the loop has visited is either counted as lost (a
\* border shorter than set_size) or on exactly one node; lost plus the sum
\* of nb_rgp is the number of visited regions, hence of input regions when
\* the loop ends; no lost region is in a spot.
C17_LostOrOneNode ==
    /\ pc \in {"rgps", "linked", "spots", "flanking"} =>
         /\ lost + SumNbRgp(spotGraph, 1) = Cardinality(Visited)
         /\ lost = Cardinality({r \in Visited : TooShort(rgps[r].border, set_size)})
         /\ \A r \in Visited :
                Cardinality(NodesOfRgp(r)) =
                    IF TooShort(rgps[r].border, set_size) THEN 0 ELSE 1
    /\ GraphLinked => lost + SumNbRgp(spotGraph, 1) = Cardinality(DOMAIN rgps)
    /\ SpotsMade =>
         \A r \in DOMAIN rgps :
             TooShort(rgps[r].border, set_size) => SpotsOfRgp(r) = {}

\* C17 witness: a lost region beside a node that holds two regions.
C17_Witness ==
    /\ SpotsMade
    /\ lost >= 1
    /\ \E n \in NodeSet(spotGraph) : spotGraph.data[n].nb_rgp >= 2

\* The nodes of a spot: the nodes whose regions the spot holds
SpotNodes(spot) == {n \in NodeSet(spotGraph) : spotGraph.data[n].rgp \subseteq spot.rgps}

\* A walk along similarity edges from node n to node m
PathBetween(n, m) ==
    \E walk \in SeqsUpTo(NodeSet(spotGraph), Len(spotGraph.nodes)) :
        /\ Len(walk) >= 1
        /\ walk[1] = n
        /\ walk[Len(walk)] = m
        /\ \A k \in 1..(Len(walk) - 1) : {walk[k], walk[k + 1]} \in spotGraph.edges

\* C18: the spots are the connected components of the graph: two nodes are
\* in the same spot iff a path of similarity edges joins them, every node is
\* in a spot, the regions of a spot are the union of the regions of its
\* nodes, and every retained region is in exactly one spot.
C18_SpotsAreComponents ==
    SpotsMade =>
        /\ \A n \in NodeSet(spotGraph), m \in NodeSet(spotGraph) :
               (\E i \in 1..Len(spots) : {n, m} \subseteq SpotNodes(spots[i]))
                   <=> PathBetween(n, m)
        /\ \A i \in 1..Len(spots) :
               /\ SpotNodes(spots[i]) # {}
               /\ spots[i].rgps = UNION {spotGraph.data[n].rgp : n \in SpotNodes(spots[i])}
        /\ \A r \in DOMAIN rgps :
               Cardinality(SpotsOfRgp(r)) = IF Retained(r) THEN 1 ELSE 0

\* C18 witness: a spot of three nodes two of which are joined only through
\* the third.
C18_Witness ==
    /\ SpotsMade
    /\ \E i \in 1..Len(spots) :
         \E n \in SpotNodes(spots[i]), m \in SpotNodes(spots[i]) :
             /\ n # m
             /\ {n, m} \notin spotGraph.edges
             /\ PathBetween(n, m)

\* The gene families of the borders of the nodes of a spot
SpotFamilies(spot) ==
    UNION {FamiliesOf(spotGraph.data[n].border0) \cup FamiliesOf(spotGraph.data[n].border1) :
             n \in SpotNodes(spot)}

\* The borders of the nodes of a spot, each as the set of its families
SpotBorderSets(spot) ==
    UNION {{FamiliesOf(spotGraph.data[n].border0), FamiliesOf(spotGraph.data[n].border1)} :
             n \in SpotNodes(spot)}

FlankEdgesOf(i, j) == {e \in flankGraph.edges : e.nodes = {i, j}}

\* C20 as claimed: one node per spot, and two spots are joined by an edge
\* whose nb_bord is the number of gene families common to their border
\* families, with no edge when there is none.
C20_WeightIsCommonFamilies ==
    pc = "flanking" =>
        /\ Len(flankGraph.nodes) = Len(spots)
        /\ \A i \in 0..(Len(spots) - 1), j \in 0..(Len(spots) - 1) :
               i < j =>
                 FlankEdgesOf(i, j) =
                   IF SpotFamilies(At(spots, i)) \cap SpotFamilies(At(spots, j)) = {}
                   THEN {}
                   ELSE {[nodes |-> {i, j},
                          nb_bord |-> Cardinality(SpotFamilies(At(spots, i))
                                                    \cap SpotFamilies(At(spots, j)))]}

\* C20 amended: one node per spot, and two spots are joined by an edge whose
\* nb_bord is the number of borders, each taken as the set of its families,
\* that the nodes of both spots have in common, with no edge when there is
\* none.
C20_WeightIsCommonBorderSets ==
    pc = "flanking" =>
        /\ Len(flankGraph.nodes) = Len(spots)
        /\ \A i \in 0..(Len(spots) - 1), j \in 0..(Len(spots) - 1) :
               i < j =>
                 FlankEdgesOf(i, j) =
                   IF SpotBorderSets(At(spots, i)) \cap SpotBorderSets(At(spots, j)) = {}
                   THEN {}
                   ELSE {[nodes |-> {i, j},
                          nb_bord |-> Cardinality(SpotBorderSets(At(spots, i))
                                                    \cap SpotBorderSets(At(spots, j)))]}

\* C20 witness: two spots joined by an edge whose nb_bord counts the one
\* border they share, while the border families they share are more.
C20_Witness ==
    /\ pc = "flanking"
    /\ \E e \in flankGraph.edges :
         \E i \in e.nodes, j \in e.nodes :
             /\ i < j
             /\ e.nb_bord = Cardinality(SpotBorderSets(At(spots, i))
                                           \cap SpotBorderSets(At(spots, j)))
             /\ e.nb_bord < Cardinality(SpotFamilies(At(spots, i))
                                           \cap SpotFamilies(At(spots, j)))
(***************************************************************************)
(* predictRGP                                                              *)
(*                                                                         *)
(* The organisms are visited in any order; a region is the record made by  *)
(* extractRGP, named by its contig (organism, position of the contig) and  *)
(* its ID on the contig.                                                   *)
(***************************************************************************)
PredictFamilies == {"fa", "fb", "fc", "fd", "fe"}

\* Partitions of the predicted pangenome: fc is shell, the others persistent
PredictPartition ==
    [f \in PredictFamilies |-> IF f = "fc" THEN "shell" ELSE "persistent"]

\* GeneFamily.ID
FamID(f) ==
    CASE f = "fa" -> 1 [] f = "fb" -> 2 [] f = "fc" -> 3 [] f = "fd" -> 4 [] OTHER -> 5

checkParameterLogic_first_only(om, ss, em) == ~(om >= ss)

\* lines 322-326: TRUE when no exception is raised
checkParameterLogic(om, ss, em) == ~(om >= ss) /\ ~(em > ss)

\* formats.checkPangenomeInfo with needAnnotations, needFamilies and
\* needPartitions: TRUE when no exception is raised
checkPangenomeInfo(st) == st.annotations /\ st.families /\ st.partitions

\* lines 173-184 over the families of the pangenome
get_multigenics(partition, dict, margin) ==
    {fam \in DOMAIN partition :
        getOrgDict(dict, fam) # {} /\ IsMultigenic(partition, dict, fam, margin)}

\* lines 150-161: the loop of mkRegions; raised when new_region[0] is read
\* on a region without genes
RECURSIVE mkRegionsLoop(_, _, _, _, _)
mkRegionsLoop(cname, c, mat, rs, kept) ==
    IF maxIndexNode(mat).val < min_score
    THEN [raised |-> FALSE, regions |-> kept]
    ELSE LET e == extractRGP(cname, mat, maxIndexNode(mat).index, Cardinality(kept))
             region == [e.new_region EXCEPT !.score = maxIndexNode(mat).val]
         IN  IF Len(region.genes) = 0
             THEN [raised |-> TRUE, regions |-> kept]
             ELSE LET r == rewriteMatrix(c, e.mat, maxIndexNode(mat).index,
                                         namedPartition, persistent_penalty,
                                         variable_gain, multigenics, rs)
                  IN  mkRegionsLoop(cname, c, r.mat, r.raw,
                                    IF Accepted(region, min_length)
                                    THEN kept \cup {region}
                                    ELSE kept)

\* lines 168-169: initMatrices then mkRegions on one contig
mkRegions(cname, c) ==
    LET im == initMatrices(c, namedPartition, persistent_penalty,
                           variable_gain, multigenics)
    IN  mkRegionsLoop(cname, c, im.mat, im.raw, {})

\* lines 164-171: the loop over the contigs of an organism
RECURSIVE OrgLoop(_, _, _)
OrgLoop(org, i, kept) ==
    IF i >= Len(organisms[org]) THEN [raised |-> FALSE, regions |-> kept]
    ELSE IF Len(At(organisms[org], i).genes) = 0 THEN OrgLoop(org, i + 1, kept)
    ELSE LET r == mkRegions(<<org, i>>, At(organisms[org], i))
         IN  IF r.raised THEN [raised |-> TRUE, regions |-> kept]
             ELSE OrgLoop(org, i + 1, kept \cup r.regions)

\* lines 163-171
compute_org_rgp(org) == OrgLoop(org, 0, {})

UnionInto_overwrite(acc, orgRegions_) == orgRegions_

\* line 556: pangenomeRGP |= compute_org_rgp(...)
UnionInto(acc, orgRegions_) == acc \cup orgRegions_

\* Pangenome.addRegions
addRegions(attached, newRegions) == attached \cup newRegions

\* The contig of a region and the positions of its first and last genes
RegionContig(region) == At(organisms[region.name[1][1]], region.name[1][2])
RegionPositions(region) == {region.genes[k] : k \in 1..Len(region.genes)}
StartPosition(region) ==
    CHOOSE x \in RegionPositions(region) : \A y \in RegionPositions(region) : x <= y
StopPosition(region) ==
    CHOOSE x \in RegionPositions(region) : \A y \in RegionPositions(region) : x >= y

\* Walking outward from a region on a linear contig: the IDs of the families
\* of the persistent, not multigenic genes met, until n are collected or the
\* contig ends
RECURSIVE WalkBorder(_, _, _, _, _)
WalkBorder(genes, pos, step, n, acc) ==
    IF Len(acc) >= n \/ pos < 0 \/ pos >= Len(genes) THEN acc
    ELSE WalkBorder(genes, pos + step, step, n,
                    IF /\ namedPartition[At(genes, pos)] = "persistent"
                       /\ At(genes, pos) \notin multigenics
                    THEN Append(acc, FamID(At(genes, pos)))
                    ELSE acc)

\* Region.getBorderingGenes(n, multigenics)
BorderingGenes(region, n) ==
    <<WalkBorder(RegionContig(region).genes, StartPosition(region) - 1, -1, n, <<>>),
      WalkBorder(RegionContig(region).genes, StopPosition(region) + 1, 1, n, <<>>)>>

\* The families of the genes of a region, in the order of the region
RegionFamilies(region) ==
    [k \in 1..Len(region.genes) |-> At(RegionContig(region).genes, region.genes[k])]

\* lines 564-571: the keys of pangenome.parameters["RGP"], in the order written
ParamKeys ==
    <<"persistent_penalty", "variable_gain", "min_length", "min_score",
      "dup_margin", "overlapping_match", "set_size", "exact_match">>

\* lines 587-598: the defaults of the command line
ParamValue_defaults(key) ==
    CASE key = "persistent_penalty" -> 3
      [] key = "variable_gain" -> 1
      [] key = "min_length" -> 3000
      [] key = "min_score" -> 4
      [] key = "dup_margin" -> [num |-> 1, den |-> 20]
      [] key = "overlapping_match" -> 2
      [] key = "set_size" -> 3
      [] OTHER -> 1

\* lines 564-571: the value written under a key
ParamValue(key) ==
    CASE key = "persistent_penalty" -> persistent_penalty
      [] key = "variable_gain" -> variable_gain
      [] key = "min_length" -> min_length
      [] key = "min_score" -> min_score
      [] key = "dup_margin" -> dup_margin
      [] key = "overlapping_match" -> overlapping_match
      [] key = "set_size" -> set_size
      [] OTHER -> exact_match

\* Linear contigs: none or one variable gene, a variable gene between one
\* or two persistent genes on each side, in both orientations and with the
\* persistent genes exchanged, a duplicated family, and a second variable
\* gene at the end of the contig
PredictContigs ==
    {Contig(g, FALSE) : g \in
        {<<>>, <<"fc">>, <<"fa", "fc", "fb">>,
         <<"fa", "fb", "fc", "fd", "fe">>, <<"fe", "fd", "fc", "fb", "fa">>,
         <<"fb", "fa", "fc", "fd", "fe">>, <<"fa", "fa", "fc", "fb", "fd">>,
         <<"fa", "fb", "fc", "fd", "fe", "fc">>, <<"fa", "fd", "fc", "fb", "fe">>}}

SecondOrganisms ==
    {<<c>> : c \in PredictContigs}
        \cup {<<c, Contig(<<"fe", "fd", "fc", "fb", "fa">>, FALSE)>> :
                c \in {Contig(<<>>, FALSE), Contig(<<"fa", "fb", "fc", "fd", "fe">>, FALSE)}}

\* (overlapping_match, set_size, exact_match): accepted and refused values
LogicVals ==
    {<<1, 2, 1>>, <<1, 2, 2>>, <<0, 1, 1>>, <<2, 3, 1>>,
     <<2, 2, 1>>, <<1, 2, 3>>, <<3, 3, 4>>}

\* The status of a pangenome: everything computed, or one step missing
StatusVals ==
    {[annotations |-> a, families |-> f, partitions |-> p, predictedRGP |-> "No"] :
        a \in BOOLEAN, f \in BOOLEAN, p \in BOOLEAN}

RECURSIVE CountFamily(_, _, _)
CountFamily(contigs, i, fam) ==
    IF i > Len(contigs) THEN 0
    ELSE Cardinality({k \in 1..Len(contigs[i].genes) : contigs[i].genes[k] = fam})
           + CountFamily(contigs, i + 1, fam)

InitPredict ==
    /\ organism = <<>>
    /\ namedPartition = PredictPartition
    /\ organisms \in {[o \in Organisms |-> IF o = "o1" THEN <<c>> ELSE second] :
                        c \in PredictContigs, second \in SecondOrganisms}
    /\ orgDict = [f \in PredictFamilies |->
                    [o \in Organisms |-> CountFamily(organisms[o], 1, f)]]
    /\ status \in {st \in StatusVals :
                     Cardinality({st.annotations, st.families, st.partitions} \ {TRUE}) <= 1
                     /\ (st.annotations \/ st.families)
                     /\ (st.annotations \/ st.partitions)
                     /\ (st.families \/ st.partitions)}
    /\ parameters = <<>>
    /\ regions = {}
    /\ persistent_penalty = 3
    /\ variable_gain = 1
    /\ min_length = 0
    /\ min_score \in {0, 1}
    /\ dup_margin = [num |-> 1, den |-> 20]
    /\ \E v \in LogicVals :
          /\ overlapping_match = v[1]
          /\ set_size = v[2]
          /\ exact_match = v[3]
    /\ multigenics = {}
    /\ todo = {}
    /\ ScanIdle
    /\ pairKnownBorder = <<>>
    /\ pairBorderGenes = <<>>
    /\ compared = <<>>
    /\ SpotIdle
    /\ pangenomeRGP = {}
    /\ orgsLeft = Organisms
    /\ called = {}
    /\ workers = <<>>
    /\ pc = "predict"

\* line 546
CheckParameterLogic ==
    /\ pc = "predict"
    /\ called' = called \cup {"checkParameterLogic"}
    /\ pc' = IF checkParameterLogic(overlapping_match, set_size, exact_match)
             THEN "logic_ok" ELSE "raised"
    /\ UNCHANGED <<pangenome, params, multigenics, todo, scan, history, borders,
                   hotspots, pangenomeRGP, orgsLeft, workers>>

\* line 548
CheckPangenomeInfo ==
    /\ pc = "logic_ok"
    /\ called' = called \cup {"checkPangenomeInfo"}
    /\ pc' = IF checkPangenomeInfo(status) THEN "info_ok" ELSE "raised"
    /\ UNCHANGED <<pangenome, params, multigenics, todo, scan, history, borders,
                   hotspots, pangenomeRGP, orgsLeft, workers>>

\* lines 551-552
GetMultigenics ==
    /\ pc = "info_ok"
    /\ called' = called \cup {"get_multigenics"}
    /\ multigenics' = get_multigenics(namedPartition, orgDict, dup_margin)
    /\ pangenomeRGP' = {}
    /\ pc' = "orgs"
    /\ UNCHANGED <<pangenome, params, todo, scan, history, borders, hotspots, orgsLeft,
                   workers>>

\* lines 555-556: one organism of the loop
ComputeOrgRgp(org) ==
    /\ pc = "orgs"
    /\ org \in orgsLeft
    /\ called' = called \cup {"compute_org_rgp"}
    /\ orgsLeft' = orgsLeft \ {org}
    /\ IF compute_org_rgp(org).raised
       THEN /\ pc' = "raised"
            /\ UNCHANGED pangenomeRGP
       ELSE /\ pangenomeRGP' = UnionInto(pangenomeRGP, compute_org_rgp(org).regions)
            /\ UNCHANGED pc
    /\ UNCHANGED <<pangenome, params, multigenics, todo, scan, history, borders, hotspots,
                   workers>>

\* line 558
AddRegions ==
    /\ pc = "orgs"
    /\ orgsLeft = {}
    /\ called' = called \cup {"addRegions"}
    /\ regions' = addRegions(regions, pangenomeRGP)
    /\ pc' = "regions"
    /\ UNCHANGED <<organism, namedPartition, orgDict, organisms, status, parameters,
                   params, multigenics, todo, scan, history, borders, hotspots,
                   pangenomeRGP, orgsLeft, workers>>

\* lines 560 and 305: detect_hotspots hands the regions to makeSpotGraph
DetectHotspots ==
    /\ pc = "regions"
    /\ called' = called \cup {"detect_hotspots"}
    /\ rgps' = [r \in regions |->
                  [border |-> BorderingGenes(r, set_size), families |-> RegionFamilies(r)]]
    /\ pending' = regions
    /\ spotGraph' = EmptyGraph
    /\ lost' = 0
    /\ spots' = <<>>
    /\ flankGraph' = <<>>
    /\ pc' = "rgps"
    /\ UNCHANGED <<pangenome, params, multigenics, todo, scan, history, borders,
                   pangenomeRGP, orgsLeft, workers>>

\* line 563, after detect_hotspots returned with or without the flanking graph
ResetParameters ==
    /\ pc \in {"spots", "flanking"}
    /\ parameters' = ("RGP" :> <<>>)
    /\ pc' = "recording"
    /\ UNCHANGED <<organism, namedPartition, orgDict, organisms, status, regions,
                   params, multigenics, todo, scan, history, borders, hotspots, predict>>

\* lines 564-571: the next of the eight assignments
RecordParameter ==
    /\ pc = "recording"
    /\ Cardinality(DOMAIN parameters["RGP"]) < Len(ParamKeys)
    /\ LET key == ParamKeys[Cardinality(DOMAIN parameters["RGP"]) + 1]
       IN  parameters' = [parameters EXCEPT !["RGP"] = @ @@ (key :> ParamValue(key))]
    /\ UNCHANGED <<organism, namedPartition, orgDict, organisms, status, regions,
                   params, multigenics, todo, scan, pc, history, borders, hotspots, predict>>

\* line 572
SetStatus ==
    /\ pc = "recording"
    /\ Cardinality(DOMAIN parameters["RGP"]) = Len(ParamKeys)
    /\ status' = [status EXCEPT !.predictedRGP = "Computed"]
    /\ pc' = "done"
    /\ UNCHANGED <<organism, namedPartition, orgDict, organisms, parameters, regions,
                   params, multigenics, todo, scan, history, borders, hotspots, predict>>

NextPredict ==
    \/ CheckParameterLogic
    \/ CheckPangenomeInfo
    \/ GetMultigenics
    \/ \E org \in Organisms : ComputeOrgRgp(org)
    \/ AddRegions
    \/ DetectHotspots
    \/ \E rgp \in DOMAIN rgps : AddRgp(rgp)
    \/ LinkNodes
    \/ ReturnSpots
    \/ MakeFlanking
    \/ ResetParameters
    \/ RecordParameter
    \/ SetStatus

SpecPredict == InitPredict /\ [][NextPredict]_vars
(***************************************************************************)
(* Properties of predictRGP                                                *)
(***************************************************************************)
BadParameters == overlapping_match >= set_size \/ exact_match > set_size
MissingPrerequisite == ~status.annotations \/ ~status.families \/ ~status.partitions

\* C11: when overlapping_match >= set_size or exact_match > set_size, or a
\* prerequisite of the pangenome is missing, predictRGP raises before
\* get_multigenics and before any contig is scanned, and the regions, the
\* recorded parameters and the predictedRGP status of the pangenome stay as
\* they were.
C11_FailsFast ==
    /\ BadParameters => pc \in {"predict", "raised"}
    /\ MissingPrerequisite => pc \in {"predict", "logic_ok", "raised"}
    /\ (BadParameters \/ MissingPrerequisite) =>
         /\ called \subseteq {"checkParameterLogic", "checkPangenomeInfo"}
         /\ multigenics = {}
         /\ pangenomeRGP = {}
         /\ orgsLeft = Organisms
         /\ regions = {}
         /\ parameters = <<>>
         /\ status.predictedRGP = "No"
    /\ (pc = "raised" /\ "get_multigenics" \notin called) =>
         (BadParameters \/ MissingPrerequisite)

\* C11 witness: accepted parameters on a pangenome without partitions:
\* raised by the second check.
C11_Witness ==
    /\ pc = "raised"
    /\ ~BadParameters
    /\ ~status.partitions
    /\ called = {"checkParameterLogic", "checkPangenomeInfo"}

\* C12: whenever predictedRGP is "Computed", the predicted regions are
\* attached to the pangenome and the eight parameters are recorded with the
\* values the prediction used.
C12_ComputedAfterAll ==
    status.predictedRGP = "Computed" =>
        /\ "addRegions" \in called
        /\ orgsLeft = {}
        /\ pangenomeRGP \subseteq regions
        /\ "RGP" \in DOMAIN parameters
        /\ DOMAIN parameters["RGP"] =
             {"persistent_penalty", "variable_gain", "min_length", "min_score",
              "dup_margin", "overlapping_match", "set_size", "exact_match"}
        /\ parameters["RGP"]["persistent_penalty"] = persistent_penalty
        /\ parameters["RGP"]["variable_gain"] = variable_gain
        /\ parameters["RGP"]["min_length"] = min_length
        /\ parameters["RGP"]["min_score"] = min_score
        /\ parameters["RGP"]["dup_margin"] = dup_margin
        /\ parameters["RGP"]["overlapping_match"] = overlapping_match
        /\ parameters["RGP"]["set_size"] = set_size
        /\ parameters["RGP"]["exact_match"] = exact_match

\* C12 witness: the status is set on a pangenome with regions attached.
C12_Witness ==
    /\ pc = "done"
    /\ status.predictedRGP = "Computed"
    /\ regions # {}
    /\ set_size # 3

\* The regions every organism yields, whatever the order of the organisms
ExpectedRegions == UNION {compute_org_rgp(o).regions : o \in Organisms}

RegionBorder(r) == BorderingGenes(r, set_size)

\* Two regions with the same signature key or with similar borders
Alike(r1, r2) ==
    \/ blocks(RegionBorder(r1)) = blocks(RegionBorder(r2))
    \/ checkSim(RegionBorder(r1), RegionBorder(r2),
                overlapping_match, exact_match, set_size)

KeptRegions == {r \in regions : ~TooShort(RegionBorder(r), set_size)}

RECURSIVE AlikeClass(_)
AlikeClass(S) ==
    LET T == S \cup {r \in KeptRegions : \E q \in S : Alike(q, r)}
    IN  IF T = S THEN S ELSE AlikeClass(T)

\* The partition of the kept regions the input fixes
ExpectedPartition == {AlikeClass({r}) : r \in KeptRegions}

\* C19: for a pangenome and parameters, the predicted regions and the
\* partition of the regions into spots are the same whatever the order in
\* which the organisms and the regions are visited: they are the regions of
\* every organism and the classes of the regions with the same key or
\* similar borders.
C19_Deterministic ==
    /\ pc \in {"regions", "rgps", "linked", "spots", "flanking", "recording", "done"} =>
         regions = ExpectedRegions
    /\ pc \in {"spots", "flanking", "recording", "done"} =>
         /\ {spots[i].rgps : i \in 1..Len(spots)} = ExpectedPartition
         /\ Len(spots) = Cardinality(ExpectedPartition)

\* C19 witness: both organisms yield a region with full borders, and the
\* regions end in two spots.
C19_Witness ==
    /\ pc = "done"
    /\ \A o \in Organisms : \E r \in KeptRegions : r.name[1][1] = o
    /\ Len(spots) = 2
(***************************************************************************)
(* Properties of the scan of one organism                                  *)
(***************************************************************************)
NonEmptyContigs == {i \in 0..(Len(organism) - 1) : Len(At(organism, i).genes) # 0}

\* C21: a contig without genes is passed over by compute_org_rgp without
\* raising: no matrix is ever built for it, no region of the organism comes
\* from it, and the organism's regions are those of its contigs that have
\* genes, wherever the empty contig stands among them.
C21_EmptyContigSkipped ==
    /\ HasMatrix => Len(contig.genes) # 0
    /\ \A r \in orgRegions \cup contigRegions : r.name[1] \in NonEmptyContigs
    /\ pc = "done" =>
         orgRegions = UNION {mkRegions(i, At(organism, i)).regions : i \in NonEmptyContigs}

\* C21 witness: an empty contig first, then a contig that yields a region.
C21_Witness ==
    /\ pc = "done"
    /\ Len(organism) = 2
    /\ Len(At(organism, 0).genes) = 0
    /\ \E r \in orgRegions : r.name[1] = 1
\* The node after idx in positional order: past the last gene it is the
\* first gene of a circular contig, and there is none on a linear contig.
NextInOrder(c, mat, idx) ==
    IF idx + 1 < Len(mat) THEN idx + 1
    ELSE IF c.is_circular THEN 0 ELSE None

\* The matrix after the nodes that follow idx were recomputed, each from the
\* new score of its predecessor, until a node whose state was 0
RescoredFrom(c, mat, idx) ==
    IF NextInOrder(c, mat, idx) = None THEN mat
    ELSE RewriteLoop(c, namedPartition, persistent_penalty, variable_gain,
                     multigenics, mat, NextInOrder(c, mat, idx), idx, 0, raw).mat

\* C22 (as claimed): after each extraction the nodes that follow the
\* extracted maximum and had state 1 are recomputed in positional order from
\* the new score of their predecessor; on a circular contig the
\* recomputation goes from the last gene on to the first gene, wherever the
\* extracted maximum stands.
C22_RescoreContinuesPastEnd ==
    [][Rewrite => matrix' = RescoredFrom(contig, matrix, index)]_vars

\* The rescoring holds whenever the extracted maximum is not the last node
\* of a circular contig.
C22_RescoreBeforeEnd ==
    [][(Rewrite /\ ~(contig.is_circular /\ index = Len(matrix) - 1)) =>
          matrix' = RescoredFrom(contig, matrix, index)]_vars
StrictPersistent(f) == namedPartition[f] = "persistent" /\ f \notin multigenics

\* The number of consecutive strict persistent genes immediately before
\* position j, counted back to the start of the contig
RECURSIVE RunBefore(_, _)
RunBefore(genes, j) ==
    IF j = 0 \/ ~StrictPersistent(At(genes, j - 1)) THEN 0
    ELSE 1 + RunBefore(genes, j - 1)

\* The increment of the gene at position j under the rule of the first pass
IncrementAt(genes, j) ==
    IF StrictPersistent(At(genes, j))
    THEN -pow(persistent_penalty, RunBefore(genes, j))
    ELSE variable_gain

Max0(x) == IF x > 0 THEN x ELSE 0

\* The node before i in circular order
WrapPred(mat, i) == IF i = 0 THEN Len(mat) - 1 ELSE i - 1

\* C23 (as claimed): the wraparound of initMatrices overwrites each node i
\* it revisits with max(0, score(pred(i)) + increment(i)), pred(i) being the
\* last node for i = 0 and the node i-1, as just rewritten, otherwise.
C23_WrapFollowsPredecessor ==
    (pc = "scored" /\ contig.is_circular) =>
        \A i \in 0..(nbRewritten - 1) :
            At(matrix, i).score =
                Max0(At(matrix, WrapPred(matrix, i)).score + IncrementAt(contig.genes, i))

\* What the wraparound computes: every node it revisits is scored from the
\* score of the last node.
C23_WrapFollowsLastNode ==
    (pc = "scored" /\ contig.is_circular) =>
        \A i \in 0..(nbRewritten - 1) :
            At(matrix, i).score =
                Max0(At(matrix, Len(matrix) - 1).score + IncrementAt(contig.genes, i))
\* val is the highest score of the matrix and index the last position that has it
IsLastMaximum(mat, v, idx) ==
    /\ \A i \in Positions(mat) : At(mat, i).score <= v
    /\ \A i \in Positions(mat) : i > idx => At(mat, i).score < v

\* C24: every iteration of mkRegions takes the node with the highest score,
\* the one at the highest position when several nodes have it; the loop goes
\* on while that score is >= min_score, a score equal to min_score
\* included, and ends exactly when it is < min_score.
C24_LastMaximumUntilBelowMinScore ==
    /\ pc = "loop" =>
         /\ index \in Positions(matrix)
         /\ val = At(matrix, index).score
         /\ IsLastMaximum(matrix, val, index)
         /\ (ENABLED Extract) <=> val >= min_score
         /\ (ENABLED ReturnRegions) <=> val < min_score
    /\ pc = "extracted" =>
         /\ val >= min_score
         /\ new_region.score = val
         /\ new_region.genes[1] = index
         /\ IsLastMaximum(matrix, val, index)
    /\ pc \in {"org", "done"} =>
         \A i \in Positions(matrix) : At(matrix, i).score < min_score

\* C24 witness: two nodes have the highest score, which equals min_score;
\* the later one was extracted and the earlier one still has its score.
C24_Witness ==
    /\ pc = "extracted"
    /\ min_score > 0
    /\ val = min_score
    /\ \E i \in Positions(matrix) :
          /\ i < index
          /\ i \notin GenesOf(new_region)
          /\ At(matrix, i).score = val
\* The node reached from node by following k back-links, None past a missing one
RECURSIVE Back(_, _, _)
Back(mat, node, k) ==
    IF k = 0 THEN node
    ELSE IF Back(mat, node, k - 1) = None THEN None
         ELSE At(mat, Back(mat, node, k - 1)).prev

\* The walk ends before its k-th step back: the back-link is missing, the
\* node has state 0, or the walk is back on the node it started from
EndsAt(mat, node, k) ==
    \/ k = Len(mat)
    \/ Back(mat, node, k) = None
    \/ At(mat, Back(mat, node, k)).state = 0

ChainLen(mat, node) ==
    CHOOSE k \in 0..Len(mat) :
        /\ EndsAt(mat, node, k)
        /\ \A j \in 0..(k - 1) : ~EndsAt(mat, node, j)

\* C25: extractRGP collects the starting node and the nodes reached from it
\* through back-links as long as they have state 1, up to the first node of
\* state 0 or a missing back-link; the collected nodes end with state 0 and
\* score 0 and no other node changes; where the back-links of a circular
\* contig form a cycle of state 1 nodes the walk ends after one round.
C25_MaximalChain ==
    [][Extract =>
        LET L == ChainLen(matrix, index)
            chain == {Back(matrix, index, k) : k \in 0..(L - 1)}
        IN  /\ Len(new_region'.genes) = L
            /\ \A k \in 1..L : new_region'.genes[k] = Back(matrix, index, k - 1)
            /\ Len(matrix') = Len(matrix)
            /\ \A i \in Positions(matrix) :
                  IF i \in chain
                  THEN /\ At(matrix', i).state = 0
                       /\ At(matrix', i).score = 0
                       /\ At(matrix', i).prev = At(matrix, i).prev
                  ELSE At(matrix', i) = At(matrix, i)]_vars

\* C25 witness: on a circular contig whose nodes all have state 1 the walk
\* went once round the cycle of back-links and took every node.
C25_Witness ==
    /\ pc = "extracted"
    /\ contig.is_circular
    /\ Len(matrix) >= 3
    /\ Len(new_region.genes) = Len(matrix)
    /\ At(matrix, 0).prev = Len(matrix) - 1
    /\ NumState1(matrix) = 0
(***************************************************************************)
(* Properties of compBorder                                                *)
(***************************************************************************)
MinOf(a, b) == IF a < b THEN a ELSE b

\* The two borders have the same families at their first n positions (a
\* border with fewer than n families has to be matched in full)
AgreeOnFirst(b1, b2, n) ==
    /\ MinOf(Len(b1), n) = MinOf(Len(b2), n)
    /\ \A k \in 1..MinOf(Len(b1), n) : b1[k] = b2[k]

\* The last Len(b1) - d families of b1 are the first Len(b1) - d families of b2
SuffixIsPrefix(b1, b2, d) ==
    \A k \in 1..(Len(b1) - d) : b1[d + k] = b2[k]

AlignedByShift(b1, b2, om, ss) ==
    /\ Len(b1) = ss
    /\ Len(b2) = ss
    /\ \E d \in 1..(ss - om) : SuffixIsPrefix(b1, b2, d) \/ SuffixIsPrefix(b2, b1, d)

\* The two borders have the same n families in a row somewhere
ShareRun(b1, b2, n) ==
    \E i \in 0..(Len(b1) - n), j \in 0..(Len(b2) - n) :
        \A k \in 1..n : b1[i + k] = b2[j + k]

\* C26: compBorder(b1, b2) is true iff b1 and b2 have the same first
\* exact_match families in order, or both have set_size families and for
\* some shift d with 1 <= d <= set_size - overlapping_match the last
\* set_size - d families of one are the first set_size - d families of the
\* other; two borders matched by overlap only therefore have at least
\* overlapping_match families in a row in common.
C26_ExactOrShifted ==
    pc \in {"compared", "similar"} =>
        \A i \in 1..2, j \in 1..2 :
            LET b1 == pairKnownBorder[i]
                b2 == pairBorderGenes[j]
            IN  /\ compared.kb_b[i, j] <=>
                     \/ AgreeOnFirst(b1, b2, exact_match)
                     \/ AlignedByShift(b1, b2, overlapping_match, set_size)
                /\ compared.b_kb[i, j] <=>
                     \/ AgreeOnFirst(b2, b1, exact_match)
                     \/ AlignedByShift(b2, b1, overlapping_match, set_size)
                /\ (compared.kb_b[i, j] /\ ~AgreeOnFirst(b1, b2, exact_match)) =>
                     ShareRun(b1, b2, overlapping_match)

\* C26 witness: two borders whose first families differ, matched by a shift
\* of one position, with overlapping_match >= 1.
C26_Witness ==
    /\ pc = "compared"
    /\ overlapping_match >= 1
    /\ exact_match >= 1
    /\ compared.kb_b[1, 1]
    /\ pairKnownBorder[1][1] # pairBorderGenes[1][1]
    /\ ~AgreeOnFirst(pairKnownBorder[1], pairBorderGenes[1], exact_match)
(***************************************************************************)
(* The calls of compute_org_rgp of line 556, one per organism, run step by *)
(* step side by side.  The matrix, the regions of the contig and the       *)
(* regions of the organism are locals of each call; the multigenic set and *)
(* the scan parameters are shared and only read.                           *)
(***************************************************************************)
\* The locals of compute_org_rgp when it is entered
WorkerStart ==
    [pc |-> "org", ci |-> 0, matrix |-> <<>>, raw |-> <<>>, val |-> 0, index |-> 0,
     contigRegions |-> {}, orgRegions |-> {}]

\* Variant of WorkerContigs: every call scans the contigs of the first organism.
WorkerContigs_first(org) == organisms["o1"]

\* line 165: organism.contigs
WorkerContigs(org) == organisms[org]

\* lines 168-169: initMatrices on the current contig
WorkerScore(org, w) ==
    LET r == initMatrices(At(WorkerContigs(org), w.ci), namedPartition,
                          persistent_penalty, variable_gain, multigenics)
    IN  [w EXCEPT !.matrix = r.mat, !.raw = r.raw, !.pc = "scored"]

\* lines 150-152
WorkerStartLoop(w) ==
    [w EXCEPT !.contigRegions = {},
              !.val = maxIndexNode(w.matrix).val,
              !.index = maxIndexNode(w.matrix).index,
              !.pc = "loop"]

\* lines 154-157
WorkerExtract(org, w) ==
    LET e == extractRGP(<<org, w.ci>>, w.matrix, w.index, Cardinality(w.contigRegions))
        region == [e.new_region EXCEPT !.score = w.val]
    IN  IF Len(region.genes) = 0
        THEN [w EXCEPT !.matrix = e.mat, !.pc = "raised"]
        ELSE [w EXCEPT !.matrix = e.mat,
                       !.contigRegions = IF Accepted(region, min_length)
                                         THEN @ \cup {region} ELSE @,
                       !.pc = "extracted"]

\* lines 158-159
WorkerRewrite(org, w) ==
    LET r == rewriteMatrix(At(WorkerContigs(org), w.ci), w.matrix, w.index,
                           namedPartition, persistent_penalty, variable_gain,
                           multigenics, w.raw)
    IN  [w EXCEPT !.matrix = r.mat, !.raw = r.raw,
                  !.val = maxIndexNode(r.mat).val,
                  !.index = maxIndexNode(r.mat).index,
                  !.pc = "loop"]

\* One step of compute_org_rgp on its own locals
ScanStep(org, w) ==
    CASE w.pc = "org" ->
           IF w.ci >= Len(WorkerContigs(org)) THEN [w EXCEPT !.pc = "done"]
           ELSE IF HasGenes(At(WorkerContigs(org), w.ci)) THEN WorkerScore(org, w)
           ELSE [w EXCEPT !.ci = @ + 1]
      [] w.pc = "scored" -> WorkerStartLoop(w)
      [] w.pc = "loop" ->
           IF w.val >= min_score THEN WorkerExtract(org, w)
           ELSE [w EXCEPT !.orgRegions = @ \cup w.contigRegions,
                          !.ci = @ + 1,
                          !.pc = "org"]
      [] w.pc = "extracted" -> WorkerRewrite(org, w)
      [] OTHER -> w

\* predictRGP after line 552: the prerequisites hold, the multigenic set is
\* computed, and a call of compute_org_rgp is about to start for every organism.
InitWorkers ==
    /\ organism = <<>>
    /\ namedPartition = PredictPartition
    /\ organisms \in {[o \in Organisms |-> IF o = "o1" THEN <<c>> ELSE second] :
                        c \in PredictContigs, second \in SecondOrganisms}
    /\ orgDict = [f \in PredictFamilies |->
                    [o \in Organisms |-> CountFamily(organisms[o], 1, f)]]
    /\ status = [annotations |-> TRUE, families |-> TRUE, partitions |-> TRUE,
                 predictedRGP |-> "No"]
    /\ parameters = <<>>
    /\ regions = {}
    /\ persistent_penalty = 3
    /\ variable_gain = 1
    /\ min_length = 0
    /\ min_score \in {0, 1}
    /\ dup_margin = [num |-> 1, den |-> 20]
    /\ overlapping_match = 1
    /\ set_size = 2
    /\ exact_match = 1
    /\ multigenics = get_multigenics(namedPartition, orgDict, dup_margin)
    /\ todo = {}
    /\ ScanIdle
    /\ pairKnownBorder = <<>>
    /\ pairBorderGenes = <<>>
    /\ compared = <<>>
    /\ SpotIdle
    /\ pangenomeRGP = {}
    /\ orgsLeft = Organisms
    /\ called = {"checkParameterLogic", "checkPangenomeInfo", "get_multigenics"}
    /\ workers = [o \in Organisms |-> WorkerStart]
    /\ pc = "orgs"

\* One step of the call for one organism
WorkerStep(org) ==
    /\ pc = "orgs"
    /\ workers[org].pc \notin {"done", "raised"}
    /\ workers' = [workers EXCEPT ![org] = ScanStep(org, @)]
    /\ UNCHANGED <<pangenome, params, multigenics, todo, scan, pc, history, borders,
                   hotspots, pangenomeRGP, orgsLeft, called>>

\* line 556: the regions a call returned join pangenomeRGP
Collect(org) ==
    /\ pc = "orgs"
    /\ org \in orgsLeft
    /\ workers[org].pc = "done"
    /\ pangenomeRGP' = UnionInto(pangenomeRGP, workers[org].orgRegions)
    /\ orgsLeft' = orgsLeft \ {org}
    /\ called' = called \cup {"compute_org_rgp"}
    /\ UNCHANGED <<pangenome, params, multigenics, todo, scan, pc, history, borders,
                   hotspots, workers>>

\* the exception of a call ends predictRGP
WorkerRaised(org) ==
    /\ pc = "orgs"
    /\ workers[org].pc = "raised"
    /\ pc' = "raised"
    /\ UNCHANGED <<pangenome, params, multigenics, todo, scan, history, borders,
                   hotspots, predict>>

NextWorkers ==
    \/ \E org \in Organisms : WorkerStep(org)
    \/ \E org \in Organisms : Collect(org)
    \/ \E org \in Organisms : WorkerRaised(org)
    \/ AddRegions

SpecWorkers == InitWorkers /\ [][NextWorkers]_vars
\* The regions of the organisms whose call has returned and been collected
CollectedRegions ==
    UNION {compute_org_rgp(o).regions : o \in Organisms \ orgsLeft}

\* C27: the calls of compute_org_rgp do not depend on one another: the
\* multigenic set they read stays what get_multigenics returned, the matrix
\* of a call is built from a contig of its own organism, and however the
\* steps of the calls are interleaved and in whatever order their results
\* are united, each call returns what it returns when run alone and the
\* union is the union of these results.
C27_CallsIndependent ==
    /\ multigenics = get_multigenics(namedPartition, orgDict, dup_margin)
    /\ \A o \in Organisms :
          /\ workers[o].pc \in {"scored", "loop", "extracted", "raised"} =>
                Len(workers[o].matrix) = Len(At(organisms[o], workers[o].ci).genes)
          /\ \A r \in workers[o].contigRegions \cup workers[o].orgRegions :
                r.name[1][1] = o
          /\ workers[o].pc = "done" =>
                /\ ~compute_org_rgp(o).raised
                /\ workers[o].orgRegions = compute_org_rgp(o).regions
          /\ workers[o].pc = "raised" => compute_org_rgp(o).raised
    /\ pangenomeRGP = CollectedRegions
    /\ pc = "regions" =>
          regions = UNION {compute_org_rgp(o).regions : o \in Organisms}

\* C27 witness: the second organism's call has returned regions that were
\* united first, while the first organism's call is in the middle of its
\* scan, a region just extracted.
C27_Witness ==
    /\ pc = "orgs"
    /\ orgsLeft = {"o1"}
    /\ workers["o1"].pc = "extracted"
    /\ workers["o1"].contigRegions # {}
    /\ pangenomeRGP # {}
    /\ pangenomeRGP = workers["o2"].orgRegions
\* Regions of one contig that share no gene
GeneDisjoint(rs) ==
    \A r1, r2 \in rs :
        (r1 # r2 /\ r1.name[1] = r2.name[1]) => GenesOf(r1) \cap GenesOf(r2) = {}

\* C28: during mkRegions a node of state 0 never goes back to state 1,
\* whether an extraction or a rescoring set it to 0; so no gene is in two
\* regions of the same contig, no region holds a gene twice, and with
\* min_score > 0 every region kept has at least one gene and a score
\* >= min_score.
C28_RegionsGeneDisjoint ==
    /\ [](/\ GeneDisjoint(contigRegions)
          /\ GeneDisjoint(orgRegions \cup contigRegions)
          /\ \A r \in orgRegions \cup contigRegions :
                Cardinality(GenesOf(r)) = Len(r.genes)
          /\ min_score > 0 =>
                \A r \in orgRegions \cup contigRegions :
                    Len(r.genes) >= 1 /\ r.score >= min_score)
    /\ [][(Extract \/ Rewrite) =>
            \A i \in Positions(matrix) :
                At(matrix, i).state = 0 => At(matrix', i).state = 0]_vars

\* C28 witness: two regions of the same contig are kept, and a node that an
\* earlier rescoring set to state 0 lies between them.
C28_Witness ==
    /\ pc = "extracted"
    /\ min_score > 0
    /\ Cardinality(contigRegions) = 2
    /\ \E i \in Positions(matrix) :
          /\ i \notin Erased
          /\ At(matrix, i).state = 0
          /\ At(Scored.mat, i).state = 1
\* The score of the node before j, 0 before the first node
ScoreBefore(mat, j) == IF j = 0 THEN 0 ELSE At(mat, j - 1).score

\* C29: on a linear contig with persistent_penalty > 0 and min_score > 0,
\* after the first scan and after every extraction followed by its
\* rescoring, every node j of state 1 has score
\* max(0, score(j-1) + increment(j)), score(-1) being 0 and increment(j)
\* counting the strict persistent genes in a row immediately before j; the
\* node extracted is never a strict persistent gene, so the count the
\* rescoring restarts at 0 is the right one.
C29_RecurrenceKept ==
    (HasMatrix /\ ~contig.is_circular /\ persistent_penalty > 0 /\ min_score > 0) =>
        /\ pc \in {"scored", "loop"} =>
              \A j \in Positions(matrix) :
                  At(matrix, j).state = 1 =>
                      At(matrix, j).score =
                          Max0(ScoreBefore(matrix, j) + IncrementAt(contig.genes, j))
        /\ (pc = "loop" /\ val >= min_score) =>
              ~StrictPersistent(At(contig.genes, index))
        /\ pc = "extracted" =>
              ~StrictPersistent(At(contig.genes, index))

\* C29 witness: after an extraction and its rescoring a persistent gene that
\* had state 1 behind the extracted node was recomputed to state 0.
C29_Witness ==
    /\ pc = "loop"
    /\ ~contig.is_circular
    /\ persistent_penalty > 0
    /\ min_score > 0
    /\ candidates # <<>>
    /\ \E j \in Positions(matrix) :
          /\ j > candidates[Len(candidates)].genes[1]
          /\ StrictPersistent(At(contig.genes, j))
          /\ At(Scored.mat, j).state = 1
          /\ At(matrix, j).state = 0
\* C30: in every state of the node chain of a contig (after construction,
\* after the wraparound, after every extraction and every rescoring) a node
\* of state 0 has score 0; so a node whose score is >= a positive min_score
\* has state 1.
C30_StateZeroScoreZero ==
    \A i \in Positions(matrix) :
        /\ At(matrix, i).state = 0 => At(matrix, i).score = 0
        /\ (min_score > 0 /\ At(matrix, i).score >= min_score) => At(matrix, i).state = 1

\* C30 witness: one node was set to state 0 by construction, one by an
\* extraction and one by a rescoring, and a node of score >= min_score > 0
\* is still there.
C30_Witness ==
    /\ pc = "loop"
    /\ min_score > 0
    /\ candidates # <<>>
    /\ \E i, j, m, h \in Positions(matrix) :
          /\ At(Scored.mat, i).state = 0
          /\ j \in Erased
          /\ m \notin Erased /\ At(Scored.mat, m).state = 1 /\ At(matrix, m).state = 0
          /\ At(matrix, h).score >= min_score
====
